---- MODULE Spec2Model ----
(***************************************************************************)
(* Inventory Mapper: the pointer-gesture state machine of the two grid     *)
(* surfaces (main canvas, floating buffer panel), the cross-grid drag      *)
(* coordinator of the application component, the in-memory cell maps and   *)
(* the IndexedDB record spaces behind them.                                *)
(*                                                                         *)
(* Conventions of the model                                                *)
(*  - React state is rendered between two events: a state update made by   *)
(*    a handler is visible to the next handler, except where a handler is  *)
(*    memoised (useCallback) on dependencies that did not change; what     *)
(*    such a handler closed over is kept in upClosure.                     *)
(*  - Time advances in steps of TickMs; Date.now() - startTime is the      *)
(*    pointer's elapsed field, saturated at LONG_PRESS_DURATION.           *)
(*  - A durable write is in flight from the call of saveCell/deleteCell    *)
(*    until IndexedDB completes it; writes to one object store complete    *)
(*    in the order they were issued.                                       *)
(*  - Lengths are whole pixels; the scale is kept in thousandths.          *)
(***************************************************************************)
EXTENDS Integers, Sequences, FiniteSets, TLC

(* ------------------------------------------------------------------ *)
(* Program constants                                                  *)
(* ------------------------------------------------------------------ *)
LONG_PRESS_DURATION == 500
TAP_THRESHOLD == 10
PINCH_THRESHOLD == 10
MIN_SCALE == 300
MAX_SCALE == 3000
ScaleUnit == 10 * 100

DEFAULT_GRID_CONFIG ==
    [rows |-> 50, cols |-> 100, cellWidth |-> 80, cellHeight |-> 40,
     headerHeight |-> 30, rowHeaderWidth |-> 50]

BUFFER_GRID_CONFIG ==
    [rows |-> 5, cols |-> 4, cellWidth |-> 80, cellHeight |-> 40,
     headerHeight |-> 30, rowHeaderWidth |-> 50]

Surfaces == {"main", "buffer"}

Config(s) == IF s = "main" THEN DEFAULT_GRID_CONFIG ELSE BUFFER_GRID_CONFIG

(* canvas.getBoundingClientRect(): the main canvas at the page origin, the *)
(* buffer panel floating over it at its default position.                  *)
CanvasRect(s) ==
    IF s = "main" THEN [left |-> 0, top |-> 0] ELSE [left |-> 20, top |-> 100]

(* ------------------------------------------------------------------ *)
(* Bounds of the model                                                *)
(* ------------------------------------------------------------------ *)
TickMs == 500
MaxContacts == 2
MaxPointerId == 2
MaxInFlight == 2
MaxPan == 80
MaxZoomSteps == 2
MaxDowns == 2
MaxCodeLen == 3
MaxImports == 1
MaxCommits == 2
MaxColumn == 1000
MaxClears == 1
MaxKeys == 3
MaxFingers == 3
MaxRun == 4

(* Screen positions the contacts visit. *)
Pt(px, py) == [x |-> px, y |-> py]
ptA == Pt(60, 40)
ptA5 == Pt(63, 44)
ptA10 == Pt(66, 48)
ptB == Pt(140, 40)
ptHeader == Pt(60, 10)
ptU == Pt(80, 140)
ptV == Pt(160, 140)
ptBufHeader == Pt(80, 110)
ptRowHeader == Pt(10, 40)
ptBeyond == Pt(60, 2040)
ptThird == Pt(100, 80)
ptThirdMoved == Pt(100, 60)
ptFar == Pt(220, 40)
ptNear == Pt(20, 40)

(* ------------------------------------------------------------------ *)
(* Cell records and cell maps (types.ts)                              *)
(* ------------------------------------------------------------------ *)
NullCell ==
    [row |-> -1, col |-> -1, code1 |-> "", code2 |-> "", code3 |-> "",
     quantity |-> 0, note |-> ""]

IsNull(cell) == cell.row = -1

cellHasContent(cell) ==
    IF IsNull(cell) THEN FALSE
    ELSE cell.code1 # "" \/ cell.quantity > 0 \/ cell.note # ""

getCellKey(row, col) == ToString(row) \o "-" \o ToString(col)

EmptyMap == [k \in {} |-> NullCell]

MapHas(m, k) == k \in DOMAIN m
MapGet(m, k) == IF k \in DOMAIN m THEN m[k] ELSE NullCell
MapSet(m, k, v) == [x \in (DOMAIN m) \cup {k} |-> IF x = k THEN v ELSE m[x]]
MapDelete(m, k) == [x \in (DOMAIN m) \ {k} |-> m[x]]

Reposition(cell, row, col) == [cell EXCEPT !.row = row, !.col = col]

Content(cell) ==
    [code1 |-> cell.code1, code2 |-> cell.code2, code3 |-> cell.code3,
     quantity |-> cell.quantity, note |-> cell.note]

MkCell(row, col, c1, c2, q) ==
    [row |-> row, col |-> col, code1 |-> c1, code2 |-> c2, code3 |-> "",
     quantity |-> q, note |-> ""]

(* ------------------------------------------------------------------ *)
(* Arithmetic helpers                                                 *)
(* ------------------------------------------------------------------ *)
Abs(n) == IF n < 0 THEN -n ELSE n
Min(a, b) == IF a < b THEN a ELSE b
Max(a, b) == IF a > b THEN a ELSE b

(* Math.sqrt, rounded down to whole pixels (Newton's iteration). *)
RECURSIVE IsqrtFrom(_, _)
IsqrtFrom(n, x) ==
    LET y == (x + n \div x) \div 2
    IN  IF y >= x THEN x ELSE IsqrtFrom(n, y)
Isqrt(n) == IF n = 0 THEN 0 ELSE IsqrtFrom(n, n)

(* dx*dx + dy*dy of a pointer against its start point. *)
Dist2(x1, y1, x2, y2) == (x1 - x2) * (x1 - x2) + (y1 - y2) * (y1 - y2)
(* The comparison with the threshold left unsquared. *)
MovedLessThanUnsquared(p, d) == Dist2(p.x, p.y, p.startX, p.startY) < d
MovedLessThan(p, d) == Dist2(p.x, p.y, p.startX, p.startY) < d * d
MovedMoreThan(p, d) == Dist2(p.x, p.y, p.startX, p.startY) > d * d

getPointerDistance(p1, p2) == Isqrt(Dist2(p1.x, p1.y, p2.x, p2.y))
getPointerCenter(p1, p2) == [x |-> (p1.x + p2.x) \div 2, y |-> (p1.y + p2.y) \div 2]

(* ------------------------------------------------------------------ *)
(* Legacy records and their migration (storage.ts)                    *)
(* ------------------------------------------------------------------ *)
(* A legacy materialCode is a sequence of characters; the code fields *)
(* of a record are strings.                                           *)
Letters == {"s", "i", "p", "m", "S", "I", "P", "M"}
Digits == {"0", "1", "5"}
LineTerminators == {"\n"}
WhiteSpace == {" ", "\n"}

(* String.prototype.toUpperCase, per character. *)
toUpperCase(c) ==
    CASE c = "s" -> "S"
      [] c = "i" -> "I"
      [] c = "p" -> "P"
      [] c = "m" -> "M"
      [] OTHER -> c

RECURSIVE Join(_)
Join(chars) == IF chars = <<>> THEN "" ELSE Head(chars) \o Join(Tail(chars))

UpperCased(chars) == [i \in 1..Len(chars) |-> toUpperCase(chars[i])]

(* String.prototype.trim *)
RECURSIVE TrimStart(_)
TrimStart(chars) ==
    IF chars # <<>> /\ Head(chars) \in WhiteSpace THEN TrimStart(Tail(chars))
    ELSE chars
RECURSIVE TrimEnd(_)
TrimEnd(chars) ==
    IF chars # <<>> /\ chars[Len(chars)] \in WhiteSpace
    THEN TrimEnd(SubSeq(chars, 1, Len(chars) - 1))
    ELSE chars
trim(chars) == TrimEnd(TrimStart(chars))

(* The regular expression of parseLegacyMaterialCode, anchored at both *)
(* ends: one or more ASCII letters, any number of digits, then any     *)
(* characters but line terminators. LegacySplits is the set of ways to *)
(* split the whole text so; <<i, j>> ends the letters at i and the     *)
(* digits at j.                                                        *)
LegacySplits(mc) ==
    {sp \in (1..Len(mc)) \X (1..Len(mc)) :
        /\ sp[1] <= sp[2]
        /\ \A n \in 1..sp[1] : mc[n] \in Letters
        /\ \A n \in (sp[1] + 1)..sp[2] : mc[n] \in Digits
        /\ \A n \in (sp[2] + 1)..Len(mc) : mc[n] \notin LineTerminators}

(* The split the greedy quantifiers settle on. *)
LegacyMatch(mc) ==
    CHOOSE sp \in LegacySplits(mc) :
        \A other \in LegacySplits(mc) :
            \/ other[1] < sp[1]
            \/ other[1] = sp[1] /\ other[2] <= sp[2]

(* The same parse with code1 left in the case it was typed in. *)
parseLegacyMaterialCodeKeepingCase(materialCode) ==
    IF materialCode = <<>>
    THEN [code1 |-> "", code2 |-> "", code3 |-> ""]
    ELSE IF LegacySplits(materialCode) # {}
    THEN LET m == LegacyMatch(materialCode)
         IN  [code1 |-> Join(SubSeq(materialCode, 1, m[1])),
              code2 |-> Join(SubSeq(materialCode, m[1] + 1, m[2])),
              code3 |-> Join(trim(SubSeq(materialCode, m[2] + 1, Len(materialCode))))]
    ELSE [code1 |-> Join(materialCode), code2 |-> "", code3 |-> ""]

parseLegacyMaterialCode(materialCode) ==
    IF materialCode = <<>>
    THEN [code1 |-> "", code2 |-> "", code3 |-> ""]
    ELSE IF LegacySplits(materialCode) # {}
    THEN LET m == LegacyMatch(materialCode)
         IN  [code1 |-> Join(UpperCased(SubSeq(materialCode, 1, m[1]))),
              code2 |-> Join(SubSeq(materialCode, m[1] + 1, m[2])),
              code3 |-> Join(trim(SubSeq(materialCode, m[2] + 1, Len(materialCode))))]
    ELSE [code1 |-> Join(materialCode), code2 |-> "", code3 |-> ""]

(* A legacy record as an earlier version stored it. *)
LegacyCell(row, col, materialCode, q) ==
    [row |-> row, col |-> col, materialCode |-> materialCode, quantity |-> q,
     color |-> "#ff0000", note |-> ""]

(* The fields migration builds from a record without code1. *)
Migrated(cell) ==
    LET parsed == parseLegacyMaterialCode(
                     IF "materialCode" \in DOMAIN cell THEN cell.materialCode ELSE <<>>)
    IN  [row |-> cell.row, col |-> cell.col, code1 |-> parsed.code1,
         code2 |-> parsed.code2, code3 |-> parsed.code3,
         quantity |-> cell.quantity, note |-> cell.note]

(* Migration that parses every record, whether it carries code1 or not. *)
migrateCellDataAlways(cell) == Migrated(cell)

migrateCellData(cell) ==
    IF "code1" \in DOMAIN cell THEN cell ELSE Migrated(cell)

(* ------------------------------------------------------------------ *)
(* Column labels (types.ts)                                           *)
(* ------------------------------------------------------------------ *)
(* String.fromCharCode for the codes 65..90; a label is a sequence of *)
(* characters.                                                        *)
fromCharCode(code) ==
    <<"A", "B", "C", "D", "E", "F", "G", "H", "I", "J", "K", "L", "M", "N", "O",
      "P", "Q", "R", "S", "T", "U", "V", "W", "X", "Y", "Z">>[code - 64]

(* The loop of getColumnLabel: while (n >= 0) the letter of n % 26 is *)
(* put in front and n becomes floor(n / 26) - 1.                      *)
RECURSIVE ColumnLabelLoop(_, _)
ColumnLabelLoop(n, label) ==
    IF n >= 0
    THEN ColumnLabelLoop((n \div 26) - 1, <<fromCharCode(65 + (n % 26))>> \o label)
    ELSE label

(* The same in plain base 26, A as the zero digit. *)
RECURSIVE PlainBase26(_, _)
PlainBase26(n, label) ==
    IF n >= 26
    THEN PlainBase26(n \div 26, <<fromCharCode(65 + (n % 26))>> \o label)
    ELSE <<fromCharCode(65 + n)>> \o label

getColumnLabelInPlainBase26(col) == PlainBase26(col, <<>>)

getColumnLabel(col) == ColumnLabelLoop(col, <<>>)

(* ------------------------------------------------------------------ *)
(* State                                                              *)
(* ------------------------------------------------------------------ *)
VARIABLES
    loading,            \* App: isLoading
    wiring,             \* the buffer panel's revision: "local" | "coordinator"
    cells,              \* App: cells (main) and bufferCells (buffer), the in-memory maps
    durable,            \* IndexedDB object stores "cells" and "bufferCells"
    queue,              \* durable writes in flight, per object store, oldest first
    tasks,              \* suspended handleCrossGridDrop calls (awaiting a durable write)
    viewport,           \* per surface: offsetX, offsetY, scale (in thousandths)
    pointersRef,        \* per surface: the pointer records, in insertion order
    gestureStateRef,    \* per surface: idle | panning | zooming | longPress | dragging
    longPressTimerRef,  \* per surface: the pending long-press timeout and its closure
    pinch,              \* main: initialPinchDistance, initialScale, initialPinchCenter
    dragState,          \* per surface: the local DragState
    crossGridDragState, \* App: the shared drag record
    upClosure,          \* per surface: App state closed over by handlePointerUp
    editorState,        \* App: the editor modal's state
    contacts,           \* per surface: ids of the contacts physically down on it
    hist,               \* per surface: the gesture so far, while the surface tracks a contact
    downs,              \* contacts that went down since the page was loaded
    zoomSteps,          \* viewport updates made by pinching since the page was loaded
    dropLog,            \* the drops committed since the page was loaded, oldest first
    importTask,         \* the suspended handleImport call, if any
    importLog,          \* the imports called since the page was loaded, oldest first
    commits,            \* editor commits (save, delete) since the page was loaded
    clearTask,          \* the suspended handleClearAll call, if any, and the calls so far
    calc,               \* CellEditor: the calculator state of the quantity field
    keys,               \* calculator keys pressed since the page was loaded
    dbInstance,         \* storage: the module's database handle, NoHandle for null
    openLog,            \* openDB calls so far, those pending, the handles getDB returned
    last                \* the handler that ran last and the callbacks it invoked

vars ==
    <<loading, wiring, dbInstance, openLog, clearTask, calc, keys, cells, durable, queue, tasks, viewport,
      pointersRef,
      gestureStateRef, longPressTimerRef, pinch, dragState, crossGridDragState,
      upClosure, editorState, contacts, hist, downs, zoomSteps, dropLog, importTask,
      importLog, commits, last>>

(* dbInstance = null, and the log of a page that has opened nothing; *)
(* the handles openDB gives are numbered in the order of the calls.   *)
NoHandle == 0
NoOpens == [opens |-> 0, waiting |-> <<>>, returned |-> {}]

NoPos == [row |-> -1, col |-> -1]

NoTimer ==
    [armed |-> FALSE, pointerId |-> 0, row |-> -1, col |-> -1, cell |-> NullCell,
     x |-> 0, y |-> 0, left |-> 0]

IdleDrag ==
    [isDragging |-> FALSE, sourceCell |-> NullCell, sourceRow |-> -1,
     sourceCol |-> -1, currentX |-> 0, currentY |-> 0]

InitialCross ==
    [isDragging |-> FALSE, sourceCell |-> NullCell, sourceRow |-> -1,
     sourceCol |-> -1, currentX |-> 0, currentY |-> 0, sourceGrid |-> "none",
     dropHandled |-> FALSE]

(* The record with only the flag set, the fields of the drag kept. *)
FlaggedCross == [crossGridDragState EXCEPT !.dropHandled = TRUE]

(* The record handleDragEnd sets when the drag has ended. *)
ResetCross == [InitialCross EXCEPT !.dropHandled = TRUE]

InitialViewport == [offsetX |-> 0, offsetY |-> 0, scale |-> ScaleUnit]

InitialPinch == [distance |-> 0, scale |-> ScaleUnit, center |-> Pt(0, 0)]

ClosedEditor ==
    [isOpen |-> FALSE, cell |-> NullCell, row |-> 0, col |-> 0, isBuffer |-> FALSE]

(* The gesture of a surface so far: solo (no second contact was tracked), *)
(* strayed (a contact was displaced by more than the tap threshold),      *)
(* effects (a handler of the gesture changed the viewport, switched the   *)
(* state to panning, zooming or dragging, or started a drag), dragStarts  *)
(* (drags started), pressed (the cell record under the first contact when *)
(* it went down).                                                         *)
NoHist ==
    [solo |-> TRUE, strayed |-> FALSE, effects |-> FALSE, dragStarts |-> 0,
     pressed |-> NullCell]

(* The text handed to import: whether JSON.parse accepts it and the  *)
(* value it parses to. An array is a sequence of records; the fields *)
(* of an object root are arrays, absent, or something else.          *)
ArrayOf(items) == [tag |-> "array", items |-> items]
Absent == [tag |-> "absent", items |-> <<>>]
NumberValue == [tag |-> "number", items |-> <<>>]
ObjectOf(cellsField, bufferCellsField) ==
    [tag |-> "object", cells |-> cellsField, bufferCells |-> bufferCellsField]
Malformed == [wellFormed |-> FALSE, value |-> ObjectOf(Absent, Absent)]
TextOf(value) == [wellFormed |-> TRUE, value |-> value]

NoImport ==
    [pc |-> "idle", text |-> Malformed, pending |-> {},
     loaded |-> [s \in Surfaces |-> EmptyMap]]

ImportOwner == -1

(* handleClearAll: idle, or awaiting the two clear requests; run is  *)
(* the number of calls so far.                                       *)
NoClear == [pc |-> "idle", pending |-> {}, run |-> 0]

ClearOwner == -2

(* CellEditor: the calculator state set when the editor opens on a   *)
(* cell. An operand is a string of digits, kept as the number it     *)
(* reads as; the empty string and null are the empty sequence.       *)
CalcFor(cell) ==
    [firstOperand |-> IF cell.quantity > 0 THEN cell.quantity ELSE 0,
     secondOperand |-> <<>>, operator |-> "null", isEnteringSecondOperand |-> FALSE,
     result |-> <<>>]

NoTask == [pc |-> "free"]

TaskIds == 1..MaxInFlight

Ran(kind, s, calls) ==
    [kind |-> kind, surface |-> s, calls |-> calls, at |-> Pt(-1, -1),
     arg |-> NullCell]

(* The same for the release of a contact at screen position (x, y). *)
RanAt(kind, s, calls, x, y) == [Ran(kind, s, calls) EXCEPT !.at = Pt(x, y)]

(* The same for a handler called with a cell record. *)
RanWith(kind, s, calls, cell) == [Ran(kind, s, calls) EXCEPT !.arg = cell]

(* How often a handler invoked the callback. *)
Count(calls, name) == Cardinality({i \in 1..Len(calls) : calls[i] = name})

(* ------------------------------------------------------------------ *)
(* Coordinate mapper                                                  *)
(* ------------------------------------------------------------------ *)
(* The mapper with the quotients rounded to the nearest integer. *)
screenToGridRounding(s, vp, fineX, fineY) ==
    LET cfg == Config(s)
        nx == fineX - (CanvasRect(s).left + vp.offsetX) * ScaleUnit
        ny == fineY - (CanvasRect(s).top + vp.offsetY) * ScaleUnit
        col == (2 * (nx - cfg.rowHeaderWidth * vp.scale) + cfg.cellWidth * vp.scale)
                  \div (2 * cfg.cellWidth * vp.scale)
        row == (2 * (ny - cfg.headerHeight * vp.scale) + cfg.cellHeight * vp.scale)
                  \div (2 * cfg.cellHeight * vp.scale)
    IN  IF ny < cfg.headerHeight * vp.scale \/ nx < cfg.rowHeaderWidth * vp.scale
        THEN NoPos
        ELSE IF row < 0 \/ row >= cfg.rows \/ col < 0 \/ col >= cfg.cols
             THEN NoPos
             ELSE [row |-> row, col |-> col]

(* CanvasGrid.screenToGrid / BufferGridPanel.screenToGrid for a screen   *)
(* position given in thousandths of a pixel: with                        *)
(* n = (screen - rect - offset) * ScaleUnit, the code's x is n / scale.  *)
screenToGridFine(s, vp, fineX, fineY) ==
    LET cfg == Config(s)
        nx == fineX - (CanvasRect(s).left + vp.offsetX) * ScaleUnit
        ny == fineY - (CanvasRect(s).top + vp.offsetY) * ScaleUnit
        col == (nx - cfg.rowHeaderWidth * vp.scale) \div (cfg.cellWidth * vp.scale)
        row == (ny - cfg.headerHeight * vp.scale) \div (cfg.cellHeight * vp.scale)
    IN  IF ny < cfg.headerHeight * vp.scale \/ nx < cfg.rowHeaderWidth * vp.scale
        THEN NoPos
        ELSE IF row < 0 \/ row >= cfg.rows \/ col < 0 \/ col >= cfg.cols
             THEN NoPos
             ELSE [row |-> row, col |-> col]

(* The same for a position in whole pixels. *)
screenToGridAt(s, vp, screenX, screenY) ==
    screenToGridFine(s, vp, screenX * ScaleUnit, screenY * ScaleUnit)

(* draw: the canvas is translated by the offset and scaled, then the  *)
(* cell (row, col) is laid out at x = rowHeaderWidth + col * cellWidth *)
(* and y = headerHeight + row * cellHeight; its centre on the screen, *)
(* in thousandths of a pixel (cellWidth and cellHeight are even).     *)
cellCenterOnScreen(s, vp, row, col) ==
    LET cfg == Config(s)
    IN  Pt((CanvasRect(s).left + vp.offsetX) * ScaleUnit
             + (cfg.rowHeaderWidth + col * cfg.cellWidth + cfg.cellWidth \div 2) * vp.scale,
           (CanvasRect(s).top + vp.offsetY) * ScaleUnit
             + (cfg.headerHeight + row * cfg.cellHeight + cfg.cellHeight \div 2) * vp.scale)

screenToGrid(s, screenX, screenY) == screenToGridAt(s, viewport[s], screenX, screenY)

(* The canvas a new contact lands on: the buffer panel floats on top of *)
(* the main canvas, so a contact inside the panel's canvas is the       *)
(* panel's (it stops propagation); every other contact is the main      *)
(* canvas's.                                                            *)
InBufferCanvas(p) ==
    LET cfg == BUFFER_GRID_CONFIG
        r == CanvasRect("buffer")
    IN  /\ p.x >= r.left
        /\ p.x < r.left + cfg.rowHeaderWidth + cfg.cols * cfg.cellWidth
        /\ p.y >= r.top
        /\ p.y < r.top + cfg.headerHeight + cfg.rows * cfg.cellHeight

SurfaceAt(p) == IF InBufferCanvas(p) THEN "buffer" ELSE "main"

(* ------------------------------------------------------------------ *)
(* Pointer collection helpers (a Map in insertion order)              *)
(* ------------------------------------------------------------------ *)
Size(s) == Len(pointersRef[s])
Ids(s) == {pointersRef[s][i].id : i \in 1..Len(pointersRef[s])}
IndexOf(s, id) == CHOOSE i \in 1..Len(pointersRef[s]) : pointersRef[s][i].id = id
PointerOf(s, id) == pointersRef[s][IndexOf(s, id)]
Without(seq, id) == SelectSeq(seq, LAMBDA p : p.id # id)

AllContacts == contacts["main"] \cup contacts["buffer"]
KnownIds == AllContacts \cup Ids("main") \cup Ids("buffer")
FreeIdsUpTo(maxId) == (1..maxId) \ KnownIds
FreshIdUpTo(maxId) ==
    CHOOSE id \in FreeIdsUpTo(maxId) : \A other \in FreeIdsUpTo(maxId) : id <= other
FreeIds == FreeIdsUpTo(MaxPointerId)
FreshId == FreshIdUpTo(MaxPointerId)

(* ------------------------------------------------------------------ *)
(* Initial state: the stores hold what an earlier session left, the   *)
(* component has just been constructed and is loading.                *)
(* ------------------------------------------------------------------ *)
CellA == MkCell(0, 0, "S", "5", 1)
CellB == MkCell(0, 1, "F", "10", 2)
CellC == MkCell(0, 0, "V", "1", 3)

StoreOf(records) == [k \in {getCellKey(r.row, r.col) : r \in records} |->
                        CHOOSE r \in records : getCellKey(r.row, r.col) = k]

InitialStores == [main |-> StoreOf({CellA, CellB}), buffer |-> StoreOf({CellC})]

InitView(w, stores, view) ==
    /\ loading = TRUE
    /\ wiring = w
    /\ dbInstance = NoHandle
    /\ openLog = NoOpens
    /\ durable = stores
    /\ cells = [s \in Surfaces |-> EmptyMap]
    /\ queue = [s \in Surfaces |-> <<>>]
    /\ tasks = [t \in TaskIds |-> NoTask]
    /\ viewport = view
    /\ pointersRef = [s \in Surfaces |-> <<>>]
    /\ gestureStateRef = [s \in Surfaces |-> "idle"]
    /\ longPressTimerRef = [s \in Surfaces |-> NoTimer]
    /\ pinch = InitialPinch
    /\ dragState = [s \in Surfaces |-> IdleDrag]
    /\ crossGridDragState = InitialCross
    /\ upClosure = [s \in Surfaces |->
                      [cross |-> InitialCross, cells |-> [g \in Surfaces |-> EmptyMap]]]
    /\ editorState = ClosedEditor
    /\ contacts = [s \in Surfaces |-> {}]
    /\ hist = [s \in Surfaces |-> NoHist]
    /\ downs = 0
    /\ zoomSteps = 0
    /\ dropLog = <<>>
    /\ importTask = NoImport
    /\ importLog = <<>>
    /\ commits = 0
    /\ clearTask = NoClear
    /\ calc = CalcFor(NullCell)
    /\ keys = 0
    /\ last = Ran("mount", "none", <<>>)

InitOver(w, stores) == InitView(w, stores, [s \in Surfaces |-> InitialViewport])

InitWith(w) == InitOver(w, InitialStores)

(* A render: handlePointerUp of a surface is re-created when one of its  *)
(* dependencies (screenToGrid <- viewport, onCellTap <- the surface's    *)
(* cell map, dragState) was set; it then closes over the App state of    *)
(* that render.                                                          *)
Render(touched) ==
    upClosure' = [s \in Surfaces |->
                    IF s \in touched
                    THEN [cross |-> crossGridDragState', cells |-> cells']
                    ELSE upClosure[s]]

(* The gesture record of a surface after a handler ran on it. *)
Gesture(s, h) ==
    hist' = [hist EXCEPT ![s] =
        IF Len(pointersRef'[s]) = 0 THEN NoHist
        ELSE [h EXCEPT !.effects =
                 \/ @
                 \/ viewport'[s] # viewport[s]
                 \/ /\ gestureStateRef'[s] # gestureStateRef[s]
                    /\ gestureStateRef'[s] \in {"panning", "zooming", "dragging"}
                 \/ dragState'[s].isDragging /\ ~dragState[s].isDragging]]

(* ------------------------------------------------------------------ *)
(* storage: getDB                                                     *)
(* ------------------------------------------------------------------ *)
(* The module state of storage.ts: dbInstance and the log of opens.   *)
Storage(instance, log) == [dbInstance |-> instance, openLog |-> log]

(* getDB up to its return or its await: with dbInstance set it        *)
(* returns that handle; otherwise it calls openDB and waits for the   *)
(* handle, dbInstance staying null until the open resolves.           *)
getDB(st) ==
    IF st.dbInstance # NoHandle
    THEN Storage(st.dbInstance,
                 [st.openLog EXCEPT !.returned = @ \cup {st.dbInstance}])
    ELSE Storage(NoHandle,
                 [st.openLog EXCEPT !.opens = @ + 1,
                                    !.waiting = Append(@, st.openLog.opens + 1)])

(* The oldest pending open resolves: the getDB call awaiting it       *)
(* assigns the handle to dbInstance and returns it.                   *)
openDBResolved(st) ==
    LET handle == Head(st.openLog.waiting)
    IN  Storage(handle,
                [st.openLog EXCEPT !.waiting = Tail(@),
                                   !.returned = @ \cup {handle}])

RECURSIVE OpensResolved(_)
OpensResolved(st) ==
    IF st.openLog.waiting = <<>> THEN st ELSE OpensResolved(openDBResolved(st))

(* The two parallel loads of loadData: loadAllCells and               *)
(* loadAllBufferCells each run to their await of getDB before either  *)
(* open resolves.                                                     *)
LoadsCalled(st) == getDB(getDB(st))

(* ------------------------------------------------------------------ *)
(* App: load on mount                                                 *)
(* ------------------------------------------------------------------ *)
loadAllCellsFrom(store) ==
    LET loaded == {migrateCellData(store[k]) : k \in DOMAIN store}
    IN  [key \in {getCellKey(c.row, c.col) : c \in loaded} |->
            CHOOSE c \in loaded : getCellKey(c.row, c.col) = key]

loadAllCells(s) == loadAllCellsFrom(durable[s])

(* loadData from the resolution of its Promise.all on. *)
LoadCompletes ==
    /\ loading
    /\ cells' = [s \in Surfaces |-> loadAllCells(s)]
    /\ loading' = FALSE
    /\ last' = Ran("loadData", "none", <<>>)
    /\ UNCHANGED <<importTask, importLog, commits, dropLog, downs, zoomSteps,
                   wiring, clearTask, calc, keys, durable, queue, tasks, viewport,
                   pointersRef, gestureStateRef, longPressTimerRef, pinch,
                   dragState, crossGridDragState, editorState, contacts, hist>>
    /\ Render(Surfaces)

(* The handle and the log after the two loads have been called and   *)
(* their opens have resolved.                                         *)
Opened == OpensResolved(LoadsCalled(Storage(dbInstance, openLog)))

(* loadData as one step: both loads are called, their opens and their *)
(* reads resolve, and the maps are set.                               *)
LoadData ==
    /\ LoadCompletes
    /\ dbInstance' = Opened.dbInstance
    /\ openLog' = Opened.openLog

(* loadData up to its await: the mount effect calls it once, and it   *)
(* calls both loads.                                                  *)
LoadStarts ==
    /\ loading
    /\ openLog.opens = 0
    /\ dbInstance' = LoadsCalled(Storage(dbInstance, openLog)).dbInstance
    /\ openLog' = LoadsCalled(Storage(dbInstance, openLog)).openLog
    /\ UNCHANGED <<loading, wiring, clearTask, calc, keys, cells, durable, queue,
                   tasks, viewport, pointersRef, gestureStateRef, longPressTimerRef,
                   pinch, dragState, crossGridDragState, upClosure, editorState,
                   contacts, hist, downs, zoomSteps, dropLog, importTask, importLog,
                   commits, last>>

(* The oldest pending openDB call resolves. *)
OpenResolves ==
    /\ openLog.waiting # <<>>
    /\ dbInstance' = openDBResolved(Storage(dbInstance, openLog)).dbInstance
    /\ openLog' = openDBResolved(Storage(dbInstance, openLog)).openLog
    /\ UNCHANGED <<loading, wiring, clearTask, calc, keys, cells, durable, queue,
                   tasks, viewport, pointersRef, gestureStateRef, longPressTimerRef,
                   pinch, dragState, crossGridDragState, upClosure, editorState,
                   contacts, hist, downs, zoomSteps, dropLog, importTask, importLog,
                   commits, last>>

(* Both loads have their handle and their reads resolve. *)
LoadReads ==
    /\ openLog.opens > 0
    /\ openLog.waiting = <<>>
    /\ LoadCompletes
    /\ UNCHANGED <<dbInstance, openLog>>

(* loadData with only the catch block: the rejection is logged and   *)
(* the loading flag is left as it was.                                *)
LoadFailsWithoutFinally(g) ==
    /\ loading
    /\ last' = Ran("loadData", g, <<"consoleError">>)
    /\ dbInstance' = Opened.dbInstance
    /\ openLog' = Opened.openLog
    /\ UNCHANGED <<importTask, importLog, commits, dropLog, downs, zoomSteps,
                   loading, wiring, clearTask, calc, keys, cells, durable, queue,
                   tasks, viewport, pointersRef, gestureStateRef, longPressTimerRef,
                   pinch, dragState, crossGridDragState, editorState, contacts,
                   hist>>
    /\ Render(Surfaces)

(* loadData when opening the database or reading store g rejects:     *)
(* Promise.all rejects with the first rejection, neither map is set,  *)
(* the catch block logs and the finally block ends the loading phase. *)
(* The handle is taken as it is after a read that rejected; an open   *)
(* that rejects leaves dbInstance null for the next call to open.     *)
LoadFails(g) ==
    /\ loading
    /\ last' = Ran("loadData", g, <<"consoleError">>)
    /\ dbInstance' = Opened.dbInstance
    /\ openLog' = Opened.openLog
    /\ loading' = FALSE
    /\ UNCHANGED <<importTask, importLog, commits, dropLog, downs, zoomSteps,
                   wiring, clearTask, calc, keys, cells, durable, queue, tasks,
                   viewport, pointersRef, gestureStateRef, longPressTimerRef,
                   pinch, dragState, crossGridDragState, editorState, contacts,
                   hist>>
    /\ Render(Surfaces)

(* ------------------------------------------------------------------ *)
(* CanvasGrid: the drag layer of a frame                              *)
(* ------------------------------------------------------------------ *)
(* Whether a screen position is inside the main canvas, which is as   *)
(* large as the whole grid at the current scale.                      *)
InMainCanvas(x, y) ==
    LET cfg == DEFAULT_GRID_CONFIG
        rect == CanvasRect("main")
        width == ((cfg.cols * cfg.cellWidth + cfg.rowHeaderWidth) * viewport["main"].scale)
                    \div ScaleUnit
        height == ((cfg.rows * cfg.cellHeight + cfg.headerHeight) * viewport["main"].scale)
                     \div ScaleUnit
    IN  /\ x >= rect.left
        /\ x <= rect.left + width
        /\ y >= rect.top
        /\ y <= rect.top + height

Preview(cell, x, y) ==
    [cell |-> cell,
     at |-> Pt(x - CanvasRect("main").left, y - CanvasRect("main").top)]

Outlined(x, y) ==
    IF screenToGrid("main", x, y) # NoPos THEN {screenToGrid("main", x, y)} ELSE {}

(* CanvasGrid.draw, the part after the corner cell: the floating      *)
(* previews and the outlined cells the frame of the main grid shows.  *)
drawDragLayer ==
    LET local == dragState["main"]
        external == crossGridDragState
        isLocal == local.isDragging /\ ~IsNull(local.sourceCell)
        isExternal == isLocal /\ external.isDragging /\ ~IsNull(external.sourceCell)
    IN  [previews |->
            (IF isLocal
             THEN {Preview(local.sourceCell, local.currentX, local.currentY)}
             ELSE {})
            \cup (IF isExternal /\ InMainCanvas(external.currentX, external.currentY)
                  THEN {Preview(external.sourceCell, external.currentX,
                                external.currentY)}
                  ELSE {}),
         outlines |->
            (IF isLocal THEN Outlined(local.currentX, local.currentY) ELSE {})
            \cup (IF isExternal
                  THEN Outlined(external.currentX, external.currentY)
                  ELSE {})]

(* ------------------------------------------------------------------ *)
(* Time                                                               *)
(* ------------------------------------------------------------------ *)
Aged(p) == [p EXCEPT !.elapsed = Min(LONG_PRESS_DURATION, p.elapsed + TickMs)]

Ages(s) ==
    \/ longPressTimerRef[s].armed /\ longPressTimerRef[s].left > 0
    \/ \E i \in 1..Len(pointersRef[s]) : pointersRef[s][i].elapsed < LONG_PRESS_DURATION

Tick ==
    /\ ~loading
    /\ \E s \in Surfaces : Ages(s)
    /\ pointersRef' = [s \in Surfaces |->
                         [i \in 1..Len(pointersRef[s]) |-> Aged(pointersRef[s][i])]]
    /\ longPressTimerRef' =
         [s \in Surfaces |->
            IF longPressTimerRef[s].armed
            THEN [longPressTimerRef[s] EXCEPT !.left = Max(0, @ - TickMs)]
            ELSE longPressTimerRef[s]]
    /\ last' = Ran("tick", "none", <<>>)
    /\ UNCHANGED <<importTask, importLog, commits, dropLog, downs, zoomSteps,
                   loading, wiring, dbInstance, openLog, clearTask, calc, keys, cells, durable, queue,
                   tasks, viewport, gestureStateRef, pinch, dragState,
                   crossGridDragState, upClosure, editorState, contacts, hist>>

(* ------------------------------------------------------------------ *)
(* App: the cross-grid drag coordinator                               *)
(* ------------------------------------------------------------------ *)
(* The record updated without the grid the drag comes from. *)
handleDragStartWithoutGrid(cell, row, col, sourceGrid) ==
    [crossGridDragState EXCEPT !.isDragging = TRUE, !.sourceCell = cell,
                               !.sourceRow = row, !.sourceCol = col,
                               !.dropHandled = FALSE]

handleDragStart(cell, row, col, sourceGrid) ==
    [crossGridDragState EXCEPT !.isDragging = TRUE, !.sourceCell = cell,
                               !.sourceRow = row, !.sourceCol = col,
                               !.sourceGrid = sourceGrid, !.dropHandled = FALSE]

handleDragMove(x, y) ==
    [crossGridDragState EXCEPT !.currentX = x, !.currentY = y]

(* CanvasGrid's imperative handle, mainGridRef.current.checkDropTarget. *)
checkDropTarget(x, y) == screenToGrid("main", x, y)

(* The buffer panel's imperative handle; the panel of the "local"     *)
(* wiring exposes none, so bufferGridRef.current is null there.       *)
bufferCheckDropTarget(x, y) ==
    IF wiring = "local" THEN NoPos ELSE screenToGrid("buffer", x, y)

InFlight == Len(queue["main"]) + Len(queue["buffer"])
FreeTasks == {t \in TaskIds : tasks[t].pc = "free"}
FreeTask == CHOOSE t \in FreeTasks : \A o \in FreeTasks : t <= o

PutOp(cell, owner) ==
    [kind |-> "put", key |-> getCellKey(cell.row, cell.col), cell |-> cell, task |-> owner]
DeleteOp(row, col, owner) ==
    [kind |-> "delete", key |-> getCellKey(row, col), cell |-> NullCell, task |-> owner]

(* The same with the main grid asked first. *)
DropTargetMainFirst(cross) ==
    LET bufferDrop == bufferCheckDropTarget(cross.currentX, cross.currentY)
        mainDrop == checkDropTarget(cross.currentX, cross.currentY)
    IN  IF ~(cross.isDragging /\ ~IsNull(cross.sourceCell) /\ cross.sourceGrid # "none")
        THEN [grid |-> "none", pos |-> NoPos]
        ELSE IF mainDrop # NoPos THEN [grid |-> "main", pos |-> mainDrop]
        ELSE IF bufferDrop # NoPos THEN [grid |-> "buffer", pos |-> bufferDrop]
        ELSE [grid |-> "none", pos |-> NoPos]

(* The drop target handleDragEnd resolves for the drag record it closed *)
(* over: the buffer panel is asked first, the main grid only if the     *)
(* panel reports none.                                                  *)
DropTarget(cross) ==
    LET bufferDrop == bufferCheckDropTarget(cross.currentX, cross.currentY)
        mainDrop == checkDropTarget(cross.currentX, cross.currentY)
    IN  IF ~(cross.isDragging /\ ~IsNull(cross.sourceCell) /\ cross.sourceGrid # "none")
        THEN [grid |-> "none", pos |-> NoPos]
        ELSE IF bufferDrop # NoPos THEN [grid |-> "buffer", pos |-> bufferDrop]
        ELSE IF mainDrop # NoPos THEN [grid |-> "main", pos |-> mainDrop]
        ELSE [grid |-> "none", pos |-> NoPos]

(* What handleCrossGridDrop computes before its first state update. *)
DropPlan(closedCells, sourceGrid, targetGrid, cell, targetRow, targetCol) ==
    LET targetKey == getCellKey(targetRow, targetCol)
        targetCellExisting == MapGet(closedCells[targetGrid], targetKey)
    IN  [sourceGrid |-> sourceGrid,
         targetGrid |-> targetGrid,
         sourceCell |-> cell,
         targetRow |-> targetRow,
         targetCol |-> targetCol,
         sourceKey |-> getCellKey(cell.row, cell.col),
         targetKey |-> targetKey,
         sourceRow |-> cell.row,
         sourceCol |-> cell.col,
         newTargetCell |-> Reposition(cell, targetRow, targetCol),
         newSourceCell |-> IF cellHasContent(targetCellExisting)
                           THEN Reposition(targetCellExisting, cell.row, cell.col)
                           ELSE NullCell]

(* The map update of the same-grid branch (one setCells call). *)
SameGridUpdate(m, plan) ==
    LET withTarget == MapSet(m, plan.targetKey, plan.newTargetCell)
    IN  IF ~IsNull(plan.newSourceCell)
        THEN MapSet(withTarget, plan.sourceKey, plan.newSourceCell)
        ELSE IF plan.sourceKey # plan.targetKey
             THEN MapDelete(withTarget, plan.sourceKey)
             ELSE withTarget

(* The second map update of the cross-grid branch (source grid). *)
SourceGridUpdate(m, plan) ==
    IF ~IsNull(plan.newSourceCell)
    THEN MapSet(m, plan.sourceKey, plan.newSourceCell)
    ELSE MapDelete(m, plan.sourceKey)

(* The record of a committed drop: the arguments of the call and the  *)
(* maps and the writes in flight when it was made.                    *)
Dropped(plan) ==
    [plan |-> plan, cells |-> cells, durable |-> durable, inFlight |-> InFlight]

(* handleCrossGridDrop up to its first await: the first map update, the *)
(* first durable write issued, the handler suspended on it.             *)
handleCrossGridDrop(plan) ==
    /\ cells' = [cells EXCEPT ![plan.targetGrid] =
                    IF plan.sourceGrid = plan.targetGrid
                    THEN SameGridUpdate(@, plan)
                    ELSE MapSet(@, plan.targetKey, plan.newTargetCell)]
    /\ queue' = [queue EXCEPT ![plan.targetGrid] =
                    Append(@, PutOp(plan.newTargetCell, FreeTask))]
    /\ tasks' = [tasks EXCEPT ![FreeTask] =
                    [pc |-> IF plan.sourceGrid = plan.targetGrid
                            THEN "sameTarget" ELSE "crossTarget",
                     plan |-> plan, drop |-> Len(dropLog) + 1]]
    /\ dropLog' = Append(dropLog, Dropped(plan))

(* handleDragEnd as closed over by the surface that calls it. *)
handleDragEnd(closure) ==
    LET cross == closure.cross
        target == DropTarget(cross)
    IN  IF cross.dropHandled
        THEN UNCHANGED <<crossGridDragState, cells, queue, tasks, dropLog>>
        ELSE /\ crossGridDragState' = ResetCross
             /\ IF target.grid # "none"
                THEN handleCrossGridDrop(
                        DropPlan(closure.cells, cross.sourceGrid, target.grid,
                                 cross.sourceCell, target.pos.row, target.pos.col))
                ELSE UNCHANGED <<cells, queue, tasks, dropLog>>

Commits(closure) ==
    IF ~closure.cross.dropHandled /\ DropTarget(closure.cross).grid # "none" THEN 1 ELSE 0

(* App (earlier revision): the buffer panel's own drop, onCellDrop. *)
handleBufferCellDrop(sourceRow, sourceCol, targetRow, targetCol) ==
    LET sourceKey == getCellKey(sourceRow, sourceCol)
        targetKey == getCellKey(targetRow, targetCol)
        prev == cells["buffer"]
        sourceCell == MapGet(prev, sourceKey)
        targetCell == MapGet(prev, targetKey)
        newSource == Reposition(targetCell, sourceRow, sourceCol)
        newTarget == Reposition(sourceCell, targetRow, targetCol)
    IN  IF (sourceRow = targetRow /\ sourceCol = targetCol) \/ IsNull(sourceCell)
        THEN UNCHANGED <<cells, queue>>
        ELSE IF cellHasContent(targetCell)
        THEN /\ cells' = [cells EXCEPT !["buffer"] =
                            MapSet(MapSet(prev, sourceKey, newSource), targetKey, newTarget)]
             /\ queue' = [queue EXCEPT !["buffer"] =
                            @ \o <<PutOp(newSource, 0), PutOp(newTarget, 0)>>]
        ELSE /\ cells' = [cells EXCEPT !["buffer"] =
                            MapSet(MapDelete(prev, sourceKey), targetKey, newTarget)]
             /\ queue' = [queue EXCEPT !["buffer"] =
                            @ \o <<DeleteOp(sourceRow, sourceCol, 0), PutOp(newTarget, 0)>>]

(* ------------------------------------------------------------------ *)
(* Surfaces: pointer handlers                                         *)
(* ------------------------------------------------------------------ *)
(* Whether the surface reports its drags to the App's coordinator. *)
Notifies(s) == s = "main" \/ wiring = "coordinator"

clearLongPressTimer(s) == NoTimer

(* handlePointerDown, for at most maxContacts contacts down at once,  *)
(* pointer ids up to maxId and maxDowns events in all.                *)
PointerDownWithin(p, maxContacts, maxId, maxDowns) ==
    LET s == SurfaceAt(p)
        id == FreshIdUpTo(maxId)
        pointer == [id |-> id, x |-> p.x, y |-> p.y, startX |-> p.x, startY |-> p.y,
                    elapsed |-> 0]
        pointers == Append(pointersRef[s], pointer)
        pointerCount == Len(pointers)
        gridPos == screenToGrid(s, p.x, p.y)
    IN  /\ ~loading
        /\ Cardinality(AllContacts) < maxContacts
        /\ downs < maxDowns
        /\ downs' = downs + 1
        /\ FreeIdsUpTo(maxId) # {}
        /\ contacts' = [contacts EXCEPT ![s] = @ \cup {id}]
        /\ pointersRef' = [pointersRef EXCEPT ![s] = pointers]
        /\ gestureStateRef' = [gestureStateRef EXCEPT ![s] =
              IF pointerCount = 1 THEN "idle"
              ELSE IF pointerCount = 2 /\ s = "main" THEN "zooming"
              ELSE @]
        /\ longPressTimerRef' = [longPressTimerRef EXCEPT ![s] =
              IF pointerCount = 1 /\ gridPos # NoPos
              THEN [armed |-> TRUE, pointerId |-> id, row |-> gridPos.row,
                    col |-> gridPos.col,
                    cell |-> MapGet(cells[s], getCellKey(gridPos.row, gridPos.col)),
                    x |-> p.x, y |-> p.y, left |-> LONG_PRESS_DURATION]
              ELSE IF pointerCount = 2 /\ s = "main" THEN clearLongPressTimer(s)
              ELSE @]
        /\ pinch' = IF pointerCount = 2 /\ s = "main"
                    THEN [distance |-> getPointerDistance(pointers[1], pointers[2]),
                          scale |-> viewport[s].scale,
                          center |-> getPointerCenter(pointers[1], pointers[2])]
                    ELSE pinch
        /\ last' = Ran("handlePointerDown", s, <<>>)
        /\ UNCHANGED <<importTask, importLog, commits, dropLog, zoomSteps, loading,
                       wiring, dbInstance, openLog, clearTask, calc, keys, cells, durable, queue, tasks,
                       viewport, dragState, crossGridDragState, upClosure,
                       editorState>>
        /\ Gesture(s, IF pointerCount = 1
                       THEN [NoHist EXCEPT !.pressed =
                               IF gridPos = NoPos THEN NullCell
                               ELSE MapGet(cells[s], getCellKey(gridPos.row, gridPos.col))]
                       ELSE [hist[s] EXCEPT !.solo = FALSE])

PointerDown(p) == PointerDownWithin(p, MaxContacts, MaxPointerId, MaxDowns)

(* The long-press timeout set by handlePointerDown. *)
LongPressFires(s) ==
    LET t == longPressTimerRef[s]
    IN  /\ t.pointerId \in Ids(s)
        /\ Size(s) = 1
        /\ MovedLessThan(PointerOf(s, t.pointerId), TAP_THRESHOLD)

TimerFire(s) ==
    LET t == longPressTimerRef[s]
        starts == LongPressFires(s) /\ cellHasContent(t.cell)
    IN  /\ t.armed
        /\ t.left = 0
        /\ longPressTimerRef' = [longPressTimerRef EXCEPT ![s] = NoTimer]
        /\ gestureStateRef' = [gestureStateRef EXCEPT ![s] =
              IF starts THEN "dragging"
              ELSE IF LongPressFires(s) /\ s = "main" THEN "longPress"
              ELSE @]
        /\ dragState' = [dragState EXCEPT ![s] =
              IF starts
              THEN [isDragging |-> TRUE, sourceCell |-> t.cell, sourceRow |-> t.row,
                    sourceCol |-> t.col, currentX |-> t.x, currentY |-> t.y]
              ELSE @]
        /\ crossGridDragState' =
              IF starts /\ Notifies(s)
              THEN handleDragStart(t.cell, t.row, t.col, s)
              ELSE crossGridDragState
        /\ last' = Ran("longPressTimer", s,
                       IF starts /\ Notifies(s) THEN <<"onDragStart">> ELSE <<>>)
        /\ UNCHANGED <<importTask, importLog, commits, dropLog, downs, zoomSteps,
                       loading, wiring, dbInstance, openLog, clearTask, calc, keys, cells, durable,
                       queue, tasks, viewport, pointersRef, pinch, editorState,
                       contacts>>
        /\ Gesture(s, IF starts THEN [hist[s] EXCEPT !.dragStarts = @ + 1] ELSE hist[s])
        /\ Render(IF starts THEN {s} ELSE {})

(* The zooming branch with the new scale taken as computed. *)
PinchViewportUnclamped(vp, pointers) ==
    LET currentDistance == getPointerDistance(pointers[1], pointers[2])
        center == getPointerCenter(pointers[1], pointers[2])
        newScale == IF pinch.distance = 0 THEN 1000 * MAX_SCALE
                    ELSE (pinch.scale * currentDistance) \div pinch.distance
        cx == center.x - CanvasRect("main").left
        cy == center.y - CanvasRect("main").top
    IN  IF Abs(currentDistance - pinch.distance) > PINCH_THRESHOLD
        THEN [offsetX |-> cx - ((cx - vp.offsetX) * newScale) \div vp.scale,
              offsetY |-> cy - ((cy - vp.offsetY) * newScale) \div vp.scale,
              scale |-> newScale]
        ELSE vp

(* The zooming branch of CanvasGrid.handlePointerMove. *)
PinchViewport(vp, pointers) ==
    LET currentDistance == getPointerDistance(pointers[1], pointers[2])
        center == getPointerCenter(pointers[1], pointers[2])
        scaled == IF pinch.distance = 0 THEN MAX_SCALE
                  ELSE (pinch.scale * currentDistance) \div pinch.distance
        newScale == Max(MIN_SCALE, Min(MAX_SCALE, scaled))
        cx == center.x - CanvasRect("main").left
        cy == center.y - CanvasRect("main").top
    IN  IF Abs(currentDistance - pinch.distance) > PINCH_THRESHOLD
        THEN [offsetX |-> cx - ((cx - vp.offsetX) * newScale) \div vp.scale,
              offsetY |-> cy - ((cy - vp.offsetY) * newScale) \div vp.scale,
              scale |-> newScale]
        ELSE vp

(* handlePointerMove *)
PointerMove(s, id, p) ==
    LET old == PointerOf(s, id)
        pointer == [old EXCEPT !.x = p.x, !.y = p.y]
        pointers == [pointersRef[s] EXCEPT ![IndexOf(s, id)] = pointer]
        pointerCount == Len(pointers)
        state == gestureStateRef[s]
        drags == pointerCount = 1 /\ state = "dragging"
        pans == /\ pointerCount = 1
                /\ state \notin {"dragging", "longPress"}
                /\ MovedMoreThan(pointer, TAP_THRESHOLD)
        zooms == pointerCount = 2 /\ s = "main" /\ state = "zooming"
        newViewport ==
            IF pans /\ s = "buffer"
            THEN [viewport[s] EXCEPT !.offsetX = @ + (p.x - old.x),
                                     !.offsetY = @ + (p.y - old.y)]
            ELSE IF zooms THEN PinchViewport(viewport[s], pointers)
            ELSE viewport[s]
        setsViewport ==
            \/ pans /\ s = "buffer"
            \/ zooms /\ newViewport # viewport[s]
    IN  /\ id \in contacts[s]
        /\ id \in Ids(s)
        /\ Pt(old.x, old.y) # p
        /\ pans /\ s = "buffer" =>
              Abs(newViewport.offsetX) <= MaxPan /\ Abs(newViewport.offsetY) <= MaxPan
        /\ zooms /\ newViewport # viewport[s] => zoomSteps < MaxZoomSteps
        /\ zoomSteps' = IF zooms /\ newViewport # viewport[s] THEN zoomSteps + 1
                        ELSE zoomSteps
        /\ pointersRef' = [pointersRef EXCEPT ![s] = pointers]
        /\ dragState' = [dragState EXCEPT ![s] =
              IF drags THEN [@ EXCEPT !.currentX = p.x, !.currentY = p.y] ELSE @]
        /\ crossGridDragState' =
              IF drags /\ Notifies(s) THEN handleDragMove(p.x, p.y)
              ELSE crossGridDragState
        /\ longPressTimerRef' = [longPressTimerRef EXCEPT ![s] =
              IF pans THEN clearLongPressTimer(s) ELSE @]
        /\ gestureStateRef' = [gestureStateRef EXCEPT ![s] =
              IF pans THEN "panning" ELSE @]
        /\ viewport' = [viewport EXCEPT ![s] = newViewport]
        /\ last' = Ran("handlePointerMove", s,
                       IF drags /\ Notifies(s) THEN <<"onDragMove">> ELSE <<>>)
        /\ UNCHANGED <<importTask, importLog, commits, dropLog, downs, loading,
                       wiring, dbInstance, openLog, clearTask, calc, keys, cells, durable, queue, tasks,
                       pinch, editorState, contacts>>
        /\ Gesture(s, [hist[s] EXCEPT !.strayed =
                          @ \/ Dist2(p.x, p.y, old.startX, old.startY)
                                  > TAP_THRESHOLD * TAP_THRESHOLD])
        /\ Render(IF drags \/ setsViewport THEN {s} ELSE {})

(* App.handleCellTap / handleBufferCellTap *)
handleCellTap(s, row, col) ==
    [isOpen |-> TRUE, cell |-> MapGet(cells[s], getCellKey(row, col)),
     row |-> row, col |-> col, isBuffer |-> (s = "buffer")]

(* The pointer collection after an up: the contact is deleted, a single *)
(* remaining contact of the main grid restarts from where it is.        *)
AfterUp(s, id) ==
    LET rest == Without(pointersRef[s], id)
    IN  IF Len(rest) = 1 /\ s = "main"
        THEN <<[rest[1] EXCEPT !.startX = rest[1].x, !.startY = rest[1].y]>>
        ELSE rest

StateAfterUp(s, id) ==
    LET rest == Without(pointersRef[s], id)
    IN  IF Len(rest) = 0 THEN "idle"
        ELSE IF Len(rest) = 1 /\ s = "main" THEN "panning"
        ELSE gestureStateRef[s]

(* handlePointerUp *)
PointerUp(s, id) ==
    LET pointer == PointerOf(s, id)
        single == Size(s) = 1
        state == gestureStateRef[s]
        drops == single /\ state = "dragging"
        taps == /\ single
                /\ state = "idle"
                /\ MovedLessThan(pointer, TAP_THRESHOLD)
                /\ pointer.elapsed < LONG_PRESS_DURATION
        tapPos == screenToGrid(s, pointer.startX, pointer.startY)
        dropPos == screenToGrid(s, pointer.x, pointer.y)
        localDrop == drops /\ ~Notifies(s) /\ dropPos # NoPos
                           /\ ~IsNull(dragState[s].sourceCell)
    IN  /\ id \in contacts[s]
        /\ id \in Ids(s)
        /\ drops => InFlight + (IF Notifies(s) THEN 1 ELSE 2) <= MaxInFlight
        /\ contacts' = [contacts EXCEPT ![s] = @ \ {id}]
        /\ longPressTimerRef' = [longPressTimerRef EXCEPT ![s] = clearLongPressTimer(s)]
        /\ pointersRef' = [pointersRef EXCEPT ![s] = AfterUp(s, id)]
        /\ gestureStateRef' = [gestureStateRef EXCEPT ![s] = StateAfterUp(s, id)]
        /\ dragState' = [dragState EXCEPT ![s] = IF drops THEN IdleDrag ELSE @]
        /\ IF drops /\ Notifies(s)
           THEN /\ handleDragEnd(upClosure[s])
           ELSE IF localDrop
           THEN /\ handleBufferCellDrop(dragState[s].sourceRow, dragState[s].sourceCol,
                                        dropPos.row, dropPos.col)
                /\ UNCHANGED <<crossGridDragState, tasks, dropLog>>
           ELSE UNCHANGED <<crossGridDragState, cells, queue, tasks, dropLog>>
        /\ editorState' = IF taps /\ tapPos # NoPos
                          THEN handleCellTap(s, tapPos.row, tapPos.col)
                          ELSE editorState
        /\ last' = RanAt("handlePointerUp", s,
              IF drops /\ Notifies(s)
              THEN <<"onDragEnd">> \o
                   (IF Commits(upClosure[s]) = 1 THEN <<"handleCrossGridDrop">> ELSE <<>>)
              ELSE IF localDrop THEN <<"onCellDrop">>
              ELSE IF taps /\ tapPos # NoPos THEN <<"onCellTap">>
              ELSE <<>>,
              pointer.x, pointer.y)
        /\ calc' = IF editorState' # editorState /\ editorState'.isOpen
                   THEN CalcFor(editorState'.cell)
                   ELSE calc
        /\ UNCHANGED <<importTask, importLog, commits, loading, wiring, dbInstance, openLog, clearTask,
                       keys, durable, viewport, pinch, downs, zoomSteps>>
        /\ Gesture(s, hist[s])
        /\ Render((IF drops THEN {s} ELSE {})
                  \cup {g \in Surfaces : cells'[g] # cells[g]})

(* handlePointerCancel: the main canvas handles it; the buffer panel's  *)
(* canvas registers no onPointerCancel, so there the contact ends and   *)
(* the panel's state stays as it is.                                    *)
PointerCancel(s, id) ==
    LET rest == Without(pointersRef[s], id)
    IN  /\ id \in contacts[s]
        /\ contacts' = [contacts EXCEPT ![s] = @ \ {id}]
        /\ IF s = "main"
           THEN /\ pointersRef' = [pointersRef EXCEPT ![s] = rest]
                /\ longPressTimerRef' =
                      [longPressTimerRef EXCEPT ![s] = clearLongPressTimer(s)]
                /\ gestureStateRef' = [gestureStateRef EXCEPT ![s] =
                      IF Len(rest) = 0 THEN "idle" ELSE @]
                /\ dragState' = [dragState EXCEPT ![s] =
                      IF Len(rest) = 0 THEN IdleDrag ELSE @]
           ELSE UNCHANGED <<pointersRef, longPressTimerRef, gestureStateRef, dragState>>
        /\ last' = Ran("pointercancel", s, <<>>)
        /\ UNCHANGED <<importTask, importLog, commits, dropLog, downs, zoomSteps,
                       loading, wiring, dbInstance, openLog, clearTask, calc, keys, cells, durable,
                       queue, tasks, viewport, pinch, crossGridDragState,
                       editorState>>
        /\ Gesture(s, hist[s])
        /\ Render(IF s = "main" /\ Len(rest) = 0 THEN {s} ELSE {})

(* ------------------------------------------------------------------ *)
(* IndexedDB: completion of the oldest write in flight on a store     *)
(* ------------------------------------------------------------------ *)
RECURSIVE PutAll(_, _)
PutAll(store, records) ==
    IF records = <<>> THEN store
    ELSE PutAll(MapSet(store, getCellKey(Head(records).row, Head(records).col),
                       Head(records)),
                Tail(records))

ApplyOp(store, op) ==
    IF op.kind = "put" THEN MapSet(store, op.key, op.cell)
    ELSE IF op.kind = "delete" THEN MapDelete(store, op.key)
    ELSE IF op.kind = "putAll" THEN PutAll(store, op.cells)
    ELSE IF op.kind = "getAll" THEN store
    ELSE EmptyMap

(* The write handleCrossGridDrop issues for the source cell. *)
SourceOp(plan, owner) ==
    IF ~IsNull(plan.newSourceCell) THEN PutOp(plan.newSourceCell, owner)
    ELSE DeleteOp(plan.sourceRow, plan.sourceCol, owner)

(* A write resolves: the handler awaiting it, if any, runs on to its  *)
(* next await or to its end.                                          *)
WriteResolves(g) ==
    LET op == Head(queue[g])
        t == op.task
        rest == [queue EXCEPT ![g] = Tail(@)]
        pc == IF t = 0 THEN "none" ELSE tasks[t].pc
    IN  /\ queue[g] # <<>>
        /\ op.task \notin {ImportOwner, ClearOwner}
        /\ durable' = [durable EXCEPT ![g] = ApplyOp(@, op)]
        /\ IF pc = "sameTarget"
           THEN LET plan == tasks[t].plan
                IN  /\ IF ~IsNull(plan.newSourceCell) \/ plan.sourceKey # plan.targetKey
                       THEN /\ queue' = [rest EXCEPT ![plan.sourceGrid] =
                                            Append(@, SourceOp(plan, t))]
                            /\ tasks' = [tasks EXCEPT ![t].pc = "final"]
                       ELSE /\ queue' = rest
                            /\ tasks' = [tasks EXCEPT ![t] = NoTask]
                    /\ UNCHANGED cells
           ELSE IF pc = "crossTarget"
           THEN LET plan == tasks[t].plan
                IN  /\ cells' = [cells EXCEPT ![plan.sourceGrid] =
                                    SourceGridUpdate(@, plan)]
                    /\ queue' = [rest EXCEPT ![plan.sourceGrid] =
                                    Append(@, SourceOp(plan, t))]
                    /\ tasks' = [tasks EXCEPT ![t].pc = "final"]
           ELSE /\ queue' = rest
                /\ tasks' = IF t = 0 THEN tasks ELSE [tasks EXCEPT ![t] = NoTask]
                /\ UNCHANGED cells
        /\ last' = Ran("writeResolved", g, <<>>)
        /\ UNCHANGED <<importTask, importLog, commits, loading, wiring, dbInstance, openLog, clearTask,
                       calc, keys, viewport, pointersRef, gestureStateRef,
                       longPressTimerRef, pinch, dragState, crossGridDragState,
                       editorState, contacts, hist, downs, zoomSteps, dropLog>>
        /\ Render(IF pc = "crossTarget" THEN {tasks[t].plan.sourceGrid} ELSE {})

(* What becomes of the rejection of a write: the editor's handlers and *)
(* the panel's own drop catch it and log it (owner 0);                *)
(* handleCrossGridDrop awaits outside any try block and handleDragEnd *)
(* neither awaits nor catches the promise it returns.                 *)
RejectionOf(op) == IF op.task = 0 THEN <<"consoleError">> ELSE <<"unhandledRejection">>

(* A write rejects: the store is unchanged; the rejection leaves      *)
(* handleCrossGridDrop at the await, so the handler ends there.       *)
WriteRejects(g) ==
    LET op == Head(queue[g])
    IN  /\ queue[g] # <<>>
        /\ op.task \notin {ImportOwner, ClearOwner}
        /\ queue' = [queue EXCEPT ![g] = Tail(@)]
        /\ tasks' = IF op.task = 0 THEN tasks ELSE [tasks EXCEPT ![op.task] = NoTask]
        /\ last' = Ran("writeRejected", g, RejectionOf(op))
        /\ UNCHANGED <<importTask, importLog, commits, dropLog, downs, zoomSteps,
                       loading, wiring, dbInstance, openLog, clearTask, calc, keys, cells, durable,
                       viewport, pointersRef, gestureStateRef, longPressTimerRef,
                       pinch, dragState, crossGridDragState, upClosure, editorState,
                       contacts, hist>>

(* App.handleEditorClose *)
EditorClose ==
    /\ editorState.isOpen
    /\ editorState' = [editorState EXCEPT !.isOpen = FALSE]
    /\ last' = Ran("handleEditorClose", "none", <<>>)
    /\ UNCHANGED <<importTask, importLog, commits, dropLog, downs, zoomSteps,
                   loading, wiring, dbInstance, openLog, clearTask, calc, keys, cells, durable, queue,
                   tasks, viewport, pointersRef, gestureStateRef, longPressTimerRef,
                   pinch, dragState, crossGridDragState, upClosure, contacts, hist>>

(* ------------------------------------------------------------------ *)
(* Editor commits                                                     *)
(* ------------------------------------------------------------------ *)
(* The surface whose cell the editor is open on. *)
EditedGrid == IF editorState.isBuffer THEN "buffer" ELSE "main"

(* CellEditor.handleSave: the record built from the form's fields for *)
(* the cell the editor is open on.                                    *)
EditedCell(content) ==
    [row |-> editorState.row, col |-> editorState.col, code1 |-> content.code1,
     code2 |-> content.code2, code3 |-> content.code3,
     quantity |-> content.quantity, note |-> content.note]

(* The same with the record stored whatever it holds. *)
handleCellSaveStoring(cell) ==
    LET g == EditedGrid
        key == getCellKey(cell.row, cell.col)
    IN  /\ cells' = [cells EXCEPT ![g] = MapSet(@, key, cell)]
        /\ queue' = [queue EXCEPT ![g] = Append(@, PutOp(cell, 0))]

(* The same with the map left alone until the write has completed. *)
handleCellSaveAwaitingWrite(cell) ==
    LET g == EditedGrid
    IN  /\ UNCHANGED cells
        /\ queue' = [queue EXCEPT ![g] =
                        Append(@, IF cellHasContent(cell) THEN PutOp(cell, 0)
                                  ELSE DeleteOp(cell.row, cell.col, 0))]

(* App.handleCellSave, called by the editor's Save button, which then *)
(* closes the editor: the map is updated at once, the durable write   *)
(* is issued and awaited inside try/catch.                            *)
handleCellSave(cell) ==
    LET g == EditedGrid
        key == getCellKey(cell.row, cell.col)
    IN  /\ cells' = [cells EXCEPT ![g] =
                        IF cellHasContent(cell) THEN MapSet(@, key, cell)
                        ELSE MapDelete(@, key)]
        /\ queue' = [queue EXCEPT ![g] =
                        Append(@, IF cellHasContent(cell) THEN PutOp(cell, 0)
                                  ELSE DeleteOp(cell.row, cell.col, 0))]

(* App.handleCellDelete *)
handleCellDelete(row, col) ==
    LET g == EditedGrid
        key == getCellKey(row, col)
    IN  /\ cells' = [cells EXCEPT ![g] = MapDelete(@, key)]
        /\ queue' = [queue EXCEPT ![g] = Append(@, DeleteOp(row, col, 0))]

(* The Save button of the editor. *)
EditorSave(content) ==
    /\ editorState.isOpen
    /\ commits < MaxCommits
    /\ handleCellSave(EditedCell(content))
    /\ editorState' = [editorState EXCEPT !.isOpen = FALSE]
    /\ commits' = commits + 1
    /\ last' = RanWith("handleCellSave", EditedGrid, <<>>, EditedCell(content))
    /\ UNCHANGED <<importTask, importLog, dropLog, downs, zoomSteps, loading,
                   wiring, dbInstance, openLog, clearTask, calc, keys, durable, tasks, viewport,
                   pointersRef, gestureStateRef, longPressTimerRef, pinch,
                   dragState, crossGridDragState, contacts, hist>>
    /\ Render({EditedGrid})

(* The Delete button of the editor. *)
EditorDelete ==
    /\ editorState.isOpen
    /\ commits < MaxCommits
    /\ handleCellDelete(editorState.row, editorState.col)
    /\ editorState' = [editorState EXCEPT !.isOpen = FALSE]
    /\ commits' = commits + 1
    /\ last' = RanWith("handleCellDelete", EditedGrid, <<>>,
                        Reposition(NullCell, editorState.row, editorState.col))
    /\ UNCHANGED <<importTask, importLog, dropLog, downs, zoomSteps, loading,
                   wiring, dbInstance, openLog, clearTask, calc, keys, durable, tasks, viewport,
                   pointersRef, gestureStateRef, longPressTimerRef, pinch,
                   dragState, crossGridDragState, contacts, hist>>
    /\ Render({EditedGrid})

(* ------------------------------------------------------------------ *)
(* The calculator of the editor's quantity field                      *)
(* ------------------------------------------------------------------ *)
(* prev + key for a string of digits, possibly signed, and a digit. *)
WithDigit(n, key) == IF n < 0 THEN 10 * n - key ELSE 10 * n + key

(* The expression first operator second, both operands present. *)
Evaluated(c) ==
    IF c.operator = "+" THEN c.firstOperand + c.secondOperand[1]
    ELSE c.firstOperand - c.secondOperand[1]

(* CellEditor.handleKeyDown for a digit key. *)
handleKeyDown(c, key) ==
    IF c.result # <<>>
    THEN [firstOperand |-> key, secondOperand |-> <<>>, operator |-> "null",
          isEnteringSecondOperand |-> FALSE, result |-> <<>>]
    ELSE IF c.operator # "null" /\ ~c.isEnteringSecondOperand
    THEN [c EXCEPT !.secondOperand = <<key>>, !.isEnteringSecondOperand = TRUE]
    ELSE IF c.isEnteringSecondOperand
    THEN [c EXCEPT !.secondOperand =
             IF @ = <<>> THEN <<key>> ELSE <<WithDigit(@[1], key)>>]
    ELSE [c EXCEPT !.firstOperand = IF @ = 0 THEN key ELSE WithDigit(@, key)]

(* CellEditor.handleOperator *)
handleOperator(c, op) ==
    IF c.result # <<>>
    THEN [firstOperand |-> c.result[1], secondOperand |-> <<>>, operator |-> op,
          isEnteringSecondOperand |-> FALSE, result |-> <<>>]
    ELSE IF c.operator # "null" /\ c.secondOperand # <<>>
    THEN [firstOperand |-> Evaluated(c), secondOperand |-> <<>>, operator |-> op,
          isEnteringSecondOperand |-> FALSE, result |-> <<>>]
    ELSE [c EXCEPT !.operator = op, !.secondOperand = <<>>,
                   !.isEnteringSecondOperand = FALSE]

(* CellEditor.handleEquals *)
handleEquals(c) ==
    IF c.operator = "null" \/ c.secondOperand = <<>> THEN c
    ELSE [firstOperand |-> Evaluated(c), secondOperand |-> <<>>, operator |-> "null",
          isEnteringSecondOperand |-> FALSE, result |-> <<Evaluated(c)>>]

(* CellEditor.getFinalQuantity *)
getFinalQuantity(c) ==
    IF c.result # <<>> THEN c.result[1]
    ELSE IF c.operator # "null" /\ c.secondOperand # <<>> THEN Evaluated(c)
    ELSE c.firstOperand

(* A key of the calculator is pressed while the editor is open. *)
KeyPressed(after) ==
    /\ editorState.isOpen
    /\ keys < MaxKeys
    /\ calc' = after
    /\ keys' = keys + 1
    /\ last' = Ran("calculatorKey", EditedGrid, <<>>)
    /\ UNCHANGED <<loading, wiring, dbInstance, openLog, clearTask, cells, durable, queue, tasks, viewport,
                   pointersRef, gestureStateRef, longPressTimerRef, pinch, dragState,
                   crossGridDragState, upClosure, editorState, contacts, hist, downs,
                   zoomSteps, dropLog, importTask, importLog, commits>>

KeyDigit(key) == KeyPressed(handleKeyDown(calc, key))
KeyOperator(op) == KeyPressed(handleOperator(calc, op))
KeyEquals == KeyPressed(handleEquals(calc))

(* The Save button with the quantity taken from the calculator, as    *)
(* CellEditor.handleSave takes it.                                    *)
EditorSaveCalculated(fields) ==
    EditorSave([fields EXCEPT !.quantity = getFinalQuantity(calc)])

(* ------------------------------------------------------------------ *)
(* Import                                                             *)
(* ------------------------------------------------------------------ *)
ClearOp(owner, run) ==
    [kind |-> "clear", key |-> "", cell |-> NullCell, task |-> owner, run |-> run]
PutAllOp(records, owner, run) ==
    [kind |-> "putAll", key |-> "", cell |-> NullCell, task |-> owner, run |-> run,
     cells |-> records]
GetAllOp(owner, run) ==
    [kind |-> "getAll", key |-> "", cell |-> NullCell, task |-> owner, run |-> run]

(* The main records taken from an object root only. *)
RawCellsOfObject(value) == IF value.tag = "array" THEN ArrayOf(<<>>) ELSE value.cells

(* importData: rawCells and rawBufferCells of the parsed value. *)
RawCells(value) == IF value.tag = "array" THEN value ELSE value.cells
RawBufferCells(value) == IF value.tag = "array" THEN ArrayOf(<<>>) ELSE value.bufferCells

(* x || [] followed by .map(migrateCellData): an absent field is the  *)
(* empty list; a value that is no array has no map method.            *)
MapThrows(field) == field.tag \notin {"array", "absent"}
MigratedAll(field) == [i \in 1..Len(field.items) |-> migrateCellData(field.items[i])]

(* The same with the text taken as parsed. *)
ThrowsOnUnmappable(text) == MapThrows(RawCells(text.value))

(* importData throws before its first await: the text does not parse, *)
(* or the main records cannot be mapped.                              *)
ThrowsBeforeClear(text) == ~text.wellFormed \/ MapThrows(RawCells(text.value))

(* db.getAll: the records of a store in the order of their keys. Keys  *)
(* are "row-col"; for the rows and columns below ten that order is     *)
(* the order of (row, col).                                            *)
RECURSIVE getAll(_)
getAll(store) ==
    IF DOMAIN store = {} THEN <<>>
    ELSE LET first == CHOOSE k \in DOMAIN store :
                         \A other \in DOMAIN store :
                            \/ store[k].row < store[other].row
                            \/ /\ store[k].row = store[other].row
                               /\ store[k].col <= store[other].col
         IN  <<store[first]>> \o getAll(MapDelete(store, first))

(* An export that writes the records of both stores as one bare array, *)
(* the format of the earlier version.                                  *)
exportDataAsBareArray(stores) ==
    TextOf(ArrayOf(getAll(stores["main"]) \o getAll(stores["buffer"])))

(* exportData over the two stores: JSON.stringify({ cells,            *)
(* bufferCells }) of the records as they are stored, legacy ones       *)
(* included. The text is kept as the value JSON.parse gives back for   *)
(* it: an object whose two fields are arrays of the records.           *)
exportDataOf(stores) ==
    TextOf(ObjectOf(ArrayOf(getAll(stores["main"])),
                    ArrayOf(getAll(stores["buffer"]))))

exportData == exportDataOf(durable)

(* The record of an import call: its text, the stores and maps when it *)
(* was called, whether any write was in flight or any handler          *)
(* suspended, the drops and editor commits made so far, its outcome.   *)
Imported(text, outcome) ==
    [text |-> text, durable |-> durable, cells |-> cells,
     quiet |-> (InFlight = 0 /\ FreeTasks = TaskIds),
     drops |-> Len(dropLog), commits |-> commits, outcome |-> outcome]

Outcome(outcome) == [importLog EXCEPT ![Len(importLog)].outcome = outcome]

(* App.handleImport up to the first await of importData. *)
HandleImport(text) ==
    /\ ~loading
    /\ importTask.pc = "idle"
    /\ Len(importLog) < MaxImports
    /\ IF ThrowsBeforeClear(text)
       THEN /\ importLog' = Append(importLog, Imported(text, "failed"))
            /\ last' = Ran("handleImport", "none", <<"alertFailed">>)
            /\ UNCHANGED <<queue, importTask>>
       ELSE /\ importLog' = Append(importLog, Imported(text, "running"))
            /\ queue' = [queue EXCEPT !["main"] =
                            Append(@, ClearOp(ImportOwner, Len(importLog) + 1))]
            /\ importTask' = [NoImport EXCEPT !.pc = "clearMain", !.text = text]
            /\ last' = Ran("handleImport", "none", <<>>)
    /\ UNCHANGED <<commits, dropLog, downs, zoomSteps, loading, wiring, dbInstance, openLog, clearTask,
                   calc, keys, cells, durable, tasks, viewport, pointersRef,
                   gestureStateRef, longPressTimerRef, pinch, dragState,
                   crossGridDragState, upClosure, editorState, contacts, hist>>

(* A request of an import call that has already ended. *)
Orphan(op) == importTask.pc = "idle" \/ op.run # Len(importLog)

(* A request of handleImport completes: importData, and after it      *)
(* handleImport, run on to the next await or to the end.              *)
ImportRequestResolves(g) ==
    LET op == Head(queue[g])
        run == Len(importLog)
        rest == [queue EXCEPT ![g] = Tail(@)]
        pc == IF Orphan(op) THEN "orphan" ELSE importTask.pc
        value == importTask.text.value
        loaded == [importTask.loaded EXCEPT ![g] = loadAllCellsFrom(durable[g])]
        throws == pc = "saveMain" /\ MapThrows(RawBufferCells(value))
        done == pc = "load" /\ importTask.pending = {g}
    IN  /\ queue[g] # <<>>
        /\ op.task = ImportOwner
        /\ durable' = [durable EXCEPT ![g] = ApplyOp(@, op)]
        /\ queue' =
              IF pc = "clearMain"
              THEN [rest EXCEPT !["main"] =
                      Append(@, PutAllOp(MigratedAll(RawCells(value)), ImportOwner, run))]
              ELSE IF pc = "saveMain" /\ ~throws
              THEN [rest EXCEPT !["buffer"] = Append(@, ClearOp(ImportOwner, run))]
              ELSE IF pc = "clearBuffer"
              THEN [rest EXCEPT !["buffer"] =
                      Append(@, PutAllOp(MigratedAll(RawBufferCells(value)),
                                         ImportOwner, run))]
              ELSE IF pc = "saveBuffer"
              THEN [s \in Surfaces |-> Append(rest[s], GetAllOp(ImportOwner, run))]
              ELSE rest
        /\ importTask' =
              IF pc = "orphan" THEN importTask
              ELSE IF throws \/ done THEN NoImport
              ELSE IF pc = "clearMain" THEN [importTask EXCEPT !.pc = "saveMain"]
              ELSE IF pc = "saveMain" THEN [importTask EXCEPT !.pc = "clearBuffer"]
              ELSE IF pc = "clearBuffer" THEN [importTask EXCEPT !.pc = "saveBuffer"]
              ELSE IF pc = "saveBuffer"
              THEN [importTask EXCEPT !.pc = "load", !.pending = Surfaces]
              ELSE [importTask EXCEPT !.pending = @ \ {g}, !.loaded = loaded]
        /\ cells' = IF done THEN loaded ELSE cells
        /\ importLog' = IF throws THEN Outcome("failed")
                        ELSE IF done THEN Outcome("imported")
                        ELSE importLog
        /\ last' = Ran("importRequestResolved", g,
                       IF throws THEN <<"alertFailed">>
                       ELSE IF done THEN <<"alertImported">>
                       ELSE <<>>)
        /\ UNCHANGED <<commits, dropLog, downs, zoomSteps, loading, wiring, dbInstance, openLog,
                       clearTask, calc, keys, tasks, viewport, pointersRef,
                       gestureStateRef, longPressTimerRef, pinch, dragState,
                       crossGridDragState, editorState, contacts, hist>>
        /\ Render(IF done THEN Surfaces ELSE {})

(* A request of handleImport fails: the rejection reaches the catch of *)
(* handleImport.                                                       *)
ImportRequestRejects(g) ==
    LET op == Head(queue[g])
    IN  /\ queue[g] # <<>>
        /\ op.task = ImportOwner
        /\ queue' = [queue EXCEPT ![g] = Tail(@)]
        /\ importTask' = IF Orphan(op) THEN importTask ELSE NoImport
        /\ importLog' = IF Orphan(op) THEN importLog ELSE Outcome("failed")
        /\ last' = Ran("importRequestRejected", g,
                       IF Orphan(op) THEN <<>> ELSE <<"consoleError", "alertFailed">>)
        /\ UNCHANGED <<commits, dropLog, downs, zoomSteps, loading, wiring, dbInstance, openLog,
                       clearTask, calc, keys, cells, durable, tasks, viewport,
                       pointersRef, gestureStateRef, longPressTimerRef, pinch,
                       dragState, crossGridDragState, upClosure, editorState,
                       contacts, hist>>

(* ------------------------------------------------------------------ *)
(* Clear All                                                          *)
(* ------------------------------------------------------------------ *)
(* App.handleClearAll up to its await: clearAllCells and              *)
(* clearAllBufferCells are both called, one request on each store,    *)
(* and Promise.all of the two is awaited.                             *)
HandleClearAll ==
    /\ ~loading
    /\ clearTask.pc = "idle"
    /\ clearTask.run < MaxClears
    /\ queue' = [s \in Surfaces |->
                    Append(queue[s], ClearOp(ClearOwner, clearTask.run + 1))]
    /\ clearTask' = [pc |-> "clearing", pending |-> Surfaces, run |-> clearTask.run + 1]
    /\ last' = Ran("handleClearAll", "none", <<>>)
    /\ UNCHANGED <<loading, wiring, dbInstance, openLog, calc, keys, cells, durable, tasks, viewport,
                   pointersRef, gestureStateRef, longPressTimerRef, pinch, dragState,
                   crossGridDragState, upClosure, editorState, contacts, hist, downs,
                   zoomSteps, dropLog, importTask, importLog, commits>>

(* A request of a handleClearAll call that has already returned. *)
ClearOrphan(op) == clearTask.pc = "idle" \/ op.run # clearTask.run

(* A clear request completes: when it was the last of the two that    *)
(* Promise.all waits for, handleClearAll runs on and sets both maps   *)
(* to empty maps.                                                     *)
ClearRequestResolves(g) ==
    LET op == Head(queue[g])
        done == ~ClearOrphan(op) /\ clearTask.pending = {g}
    IN  /\ queue[g] # <<>>
        /\ op.task = ClearOwner
        /\ durable' = [durable EXCEPT ![g] = ApplyOp(@, op)]
        /\ queue' = [queue EXCEPT ![g] = Tail(@)]
        /\ clearTask' = IF ClearOrphan(op) THEN clearTask
                        ELSE IF done THEN [clearTask EXCEPT !.pc = "idle", !.pending = {}]
                        ELSE [clearTask EXCEPT !.pending = @ \ {g}]
        /\ cells' = IF done THEN [s \in Surfaces |-> EmptyMap] ELSE cells
        /\ last' = Ran("clearRequestResolved", g,
                       IF done THEN <<"setCells", "setBufferCells">> ELSE <<>>)
        /\ UNCHANGED <<loading, wiring, dbInstance, openLog, calc, keys, tasks, viewport, pointersRef,
                       gestureStateRef, longPressTimerRef, pinch, dragState,
                       crossGridDragState, editorState, contacts, hist, downs,
                       zoomSteps, dropLog, importTask, importLog, commits>>
        /\ Render(IF done THEN Surfaces ELSE {})

(* A clear request fails: Promise.all rejects at once, the catch of   *)
(* handleClearAll logs the error and the handler returns; the other   *)
(* request, if still in flight, is left to complete.                  *)
ClearRequestRejects(g) ==
    LET op == Head(queue[g])
    IN  /\ queue[g] # <<>>
        /\ op.task = ClearOwner
        /\ queue' = [queue EXCEPT ![g] = Tail(@)]
        /\ clearTask' = IF ClearOrphan(op) THEN clearTask
                        ELSE [clearTask EXCEPT !.pc = "idle", !.pending = {}]
        /\ last' = Ran("clearRequestRejected", g,
                       IF ClearOrphan(op) THEN <<>> ELSE <<"consoleError">>)
        /\ UNCHANGED <<loading, wiring, dbInstance, openLog, calc, keys, cells, durable, tasks, viewport,
                       pointersRef, gestureStateRef, longPressTimerRef, pinch,
                       dragState, crossGridDragState, upClosure, editorState, contacts,
                       hist, downs, zoomSteps, dropLog, importTask, importLog, commits>>

(* ------------------------------------------------------------------ *)
(* Material summary                                                   *)
(* ------------------------------------------------------------------ *)
(* types.ts getCombinedCode *)
getCombinedCode(cell) ==
    IF cell.code3 # "" THEN (cell.code1 \o cell.code2) \o (" " \o cell.code3)
    ELSE cell.code1 \o cell.code2

(* The body of cells.forEach with every cell that has content counted. *)
SummariseCellWithAnyContent(materialMap, cell) ==
    LET combinedCode == getCombinedCode(cell)
    IN  IF ~cellHasContent(cell) THEN materialMap
        ELSE IF combinedCode \in DOMAIN materialMap
        THEN [materialMap EXCEPT
                 ![combinedCode].totalQuantity = @ + cell.quantity,
                 ![combinedCode].cellCount = @ + 1]
        ELSE [x \in DOMAIN materialMap \cup {combinedCode} |->
                 IF x = combinedCode
                 THEN [code1 |-> cell.code1, code2 |-> cell.code2, code3 |-> cell.code3,
                       combinedCode |-> combinedCode, totalQuantity |-> cell.quantity,
                       cellCount |-> 1]
                 ELSE materialMap[x]]

(* The body of cells.forEach in the summaries memo: a cell without    *)
(* content or without code1 is skipped; the entry of the cell's       *)
(* combined code is created from the cell or added to.                *)
SummariseCell(materialMap, cell) ==
    LET combinedCode == getCombinedCode(cell)
    IN  IF ~cellHasContent(cell) \/ cell.code1 = "" THEN materialMap
        ELSE IF combinedCode \in DOMAIN materialMap
        THEN [materialMap EXCEPT
                 ![combinedCode].totalQuantity = @ + cell.quantity,
                 ![combinedCode].cellCount = @ + 1]
        ELSE [x \in DOMAIN materialMap \cup {combinedCode} |->
                 IF x = combinedCode
                 THEN [code1 |-> cell.code1, code2 |-> cell.code2, code3 |-> cell.code3,
                       combinedCode |-> combinedCode, totalQuantity |-> cell.quantity,
                       cellCount |-> 1]
                 ELSE materialMap[x]]

(* cells.forEach over the map's values in their insertion order. *)
RECURSIVE SummariseAll(_, _)
SummariseAll(materialMap, values) ==
    IF values = <<>> THEN materialMap
    ELSE SummariseAll(SummariseCell(materialMap, Head(values)), Tail(values))

(* The orders in which a map may hold its entries. *)
InsertionOrders(m) ==
    {order \in [1..Cardinality(DOMAIN m) -> DOMAIN m] :
        \A i, j \in 1..Cardinality(DOMAIN m) : order[i] = order[j] => i = j}

(* SummaryPanel / BufferGridPanel: the summaries memo, recomputed on  *)
(* a render from the surface's map; the entries are kept by combined  *)
(* code (their sort order for display is left out).                   *)
Summaries(s, order) ==
    /\ ~loading
    /\ last' = [Ran("summaries", s, <<>>) EXCEPT
                   !.arg = SummariseAll(<<>>, [i \in 1..Len(order) |-> cells[s][order[i]]])]
    /\ UNCHANGED <<loading, wiring, dbInstance, openLog, clearTask, calc, keys, cells, durable, queue, tasks,
                   viewport, pointersRef, gestureStateRef, longPressTimerRef, pinch,
                   dragState, crossGridDragState, upClosure, editorState, contacts,
                   hist, downs, zoomSteps, dropLog, importTask, importLog, commits>>

(* ------------------------------------------------------------------ *)
(* CanvasGrid: vertical groups                                        *)
(* ------------------------------------------------------------------ *)
(* cellsByCol: the columns in the order their first content-bearing   *)
(* cell is met, each with the rows of its content-bearing cells in    *)
(* the order they are met.                                            *)
PushRow(cellsByCol, cell) ==
    IF \E n \in 1..Len(cellsByCol) : cellsByCol[n].col = cell.col
    THEN [n \in 1..Len(cellsByCol) |->
            IF cellsByCol[n].col = cell.col
            THEN [cellsByCol[n] EXCEPT !.rows = Append(@, cell.row)]
            ELSE cellsByCol[n]]
    ELSE Append(cellsByCol, [col |-> cell.col, rows |-> <<cell.row>>])

RECURSIVE CellsByCol(_, _)
CellsByCol(cellsByCol, values) ==
    IF values = <<>> THEN cellsByCol
    ELSE CellsByCol(IF cellHasContent(Head(values))
                    THEN PushRow(cellsByCol, Head(values))
                    ELSE cellsByCol,
                    Tail(values))

(* rows.sort((a, b) => a - b) *)
RECURSIVE InsertRow(_, _)
InsertRow(sorted, row) ==
    IF sorted = <<>> THEN <<row>>
    ELSE IF row < Head(sorted) THEN <<row>> \o sorted
    ELSE <<Head(sorted)>> \o InsertRow(Tail(sorted), row)
RECURSIVE SortRows(_)
SortRows(rows) ==
    IF rows = <<>> THEN <<>> ELSE InsertRow(SortRows(Tail(rows)), Head(rows))

VerticalGroup(col, startRow, endRow) ==
    [col |-> col, startRow |-> startRow, endRow |-> endRow]

(* The for loop over the sorted rows of a column from index i on, with *)
(* the groups pushed so far; it leaves the run still open.             *)
RECURSIVE GroupLoop(_, _, _, _, _, _)
GroupLoop(col, rows, i, groupStart, lastRow, groups) ==
    IF i > Len(rows)
    THEN [groups |-> groups, groupStart |-> groupStart, lastRow |-> lastRow]
    ELSE IF rows[i] = lastRow + 1
    THEN GroupLoop(col, rows, i + 1, groupStart, rows[i], groups)
    ELSE GroupLoop(col, rows, i + 1, rows[i], rows[i],
                   IF lastRow > groupStart
                   THEN Append(groups, VerticalGroup(col, groupStart, lastRow))
                   ELSE groups)

(* The groups of a column without the push that follows the loop. *)
ColumnGroupsWithoutLast(col, unsorted) ==
    IF Len(unsorted) < 2 THEN <<>>
    ELSE LET rows == SortRows(unsorted)
         IN  GroupLoop(col, rows, 2, rows[1], rows[1], <<>>).groups

(* The groups one column adds: none for fewer than two rows. *)
ColumnGroups(col, unsorted) ==
    IF Len(unsorted) < 2 THEN <<>>
    ELSE LET rows == SortRows(unsorted)
             loop == GroupLoop(col, rows, 2, rows[1], rows[1], <<>>)
         IN  IF loop.lastRow > loop.groupStart
             THEN Append(loop.groups, VerticalGroup(col, loop.groupStart, loop.lastRow))
             ELSE loop.groups

RECURSIVE AllColumnGroups(_)
AllColumnGroups(cellsByCol) ==
    IF cellsByCol = <<>> THEN <<>>
    ELSE ColumnGroups(Head(cellsByCol).col, Head(cellsByCol).rows)
         \o AllColumnGroups(Tail(cellsByCol))

(* detectVerticalGroups over the values of the map in their order. *)
detectVerticalGroups(values) == AllColumnGroups(CellsByCol(<<>>, values))

(* CanvasGrid.draw: a frame of the main grid computes the groups of   *)
(* its map.                                                           *)
DrawGroups(order) ==
    /\ ~loading
    /\ last' = [Ran("detectVerticalGroups", "main", <<>>) EXCEPT
                   !.arg = detectVerticalGroups(
                              [i \in 1..Len(order) |-> cells["main"][order[i]]])]
    /\ UNCHANGED <<loading, wiring, dbInstance, openLog, clearTask, calc, keys, cells, durable, queue, tasks,
                   viewport, pointersRef, gestureStateRef, longPressTimerRef, pinch,
                   dragState, crossGridDragState, upClosure, editorState, contacts,
                   hist, downs, zoomSteps, dropLog, importTask, importLog, commits>>

(* ------------------------------------------------------------------ *)
(* Specifications                                                     *)
(* ------------------------------------------------------------------ *)
(* The events of the environment, over the screen positions where     *)
(* contacts go down and the positions they move to.                   *)
Handlers(landings, moves) ==
    \/ Tick
    \/ \E p \in landings[Cardinality(AllContacts) + 1] : PointerDown(p)
    \/ \E s \in Surfaces : TimerFire(s)
    \/ \E s \in Surfaces : \E id \in contacts[s] :
          \E p \in moves[Cardinality({c \in AllContacts : c <= id})] :
             PointerMove(s, id, p)
    \/ \E s \in Surfaces : \E id \in contacts[s] : PointerUp(s, id)
    \/ \E s \in Surfaces : \E id \in contacts[s] : PointerCancel(s, id)
    \/ \E g \in Surfaces : WriteResolves(g)
    \/ EditorClose

(* The load on mount, as one step, and the events after it. *)
Reliable(landings, moves) ==
    \/ LoadData
    \/ Handlers(landings, moves)

(* The same with durable writes that may fail. *)
NextOver(landings, moves) ==
    \/ Reliable(landings, moves)
    \/ \E g \in Surfaces : WriteRejects(g)

(* Gestures of one or two fingers on the main grid and on the buffer  *)
(* panel, for both revisions of the panel.                            *)
GestureLandings == <<{ptA, ptHeader, ptU}, {ptB, ptV}, {}>>
GestureMoves == <<{ptA, ptA5, ptA10, ptB, ptU, ptV}, {ptB, ptV}, {}>>

InitGesture == \E w \in {"local", "coordinator"} : InitWith(w)
NextGesture == NextOver(GestureLandings, GestureMoves)
SpecGesture == InitGesture /\ [][NextGesture]_vars

(* Drags of one finger between the cells of both surfaces, the buffer *)
(* panel reporting to the App's coordinator.                          *)
DropLandings == <<{ptA, ptB, ptU}, {}, {}>>
DropMoves ==
    <<{ptA, ptA5, ptB, ptHeader, ptRowHeader, ptBeyond, ptU, ptV, ptBufHeader}, {}, {}>>

Init == InitWith("coordinator")
Next == NextOver(DropLandings, DropMoves)
Spec == Init /\ [][Next]_vars

(* The same drags with a store that fails no write. *)
NextReliable == Reliable(DropLandings, DropMoves)
SpecReliable == Init /\ [][NextReliable]_vars

(* Taps and one-finger drags on both surfaces, commits from the cell   *)
(* editor and imports of backup texts, with durable requests that may  *)
(* fail.                                                               *)
CellX == MkCell(1, 0, "M", "2", 5)
CellY == MkCell(0, 1, "P", "", 6)
BlankCell == MkCell(1, 1, "", "", 0)

TextLegacyArray == TextOf(ArrayOf(<<LegacyCell(0, 1, <<"s", "5">>, 4)>>))
TextObject == TextOf(ObjectOf(ArrayOf(<<CellX>>), ArrayOf(<<CellY, BlankCell>>)))
TextBadBuffer == TextOf(ObjectOf(ArrayOf(<<CellX>>), NumberValue))
ImportTexts == {Malformed, TextLegacyArray, TextObject, TextBadBuffer}

BlankContent == Content(NullCell)
EditorContents ==
    {BlankContent,
     [BlankContent EXCEPT !.code2 = "7", !.code3 = "X"],
     [BlankContent EXCEPT !.code1 = "M", !.quantity = 2]}

StoreLandings == <<{ptA, ptU}, {}, {}>>
StoreMoves == <<{ptU}, {}, {}>>

NextStore ==
    \/ NextOver(StoreLandings, StoreMoves)
    \/ \E content \in EditorContents : EditorSave(content)
    \/ EditorDelete
    \/ \E text \in ImportTexts : HandleImport(text)
    \/ \E g \in Surfaces : ImportRequestResolves(g)
    \/ \E g \in Surfaces : ImportRequestRejects(g)
SpecStore == Init /\ [][NextStore]_vars

(* Stores left by an earlier session, with current records or with    *)
(* records of the earlier version in both spaces; taps and editor      *)
(* commits, and an import of the text that export returns for the      *)
(* stores as they are, with durable requests that may fail.            *)
LegacyStores ==
    [main |-> StoreOf({LegacyCell(0, 0, <<"s", "5">>, 1), CellB}),
     buffer |-> StoreOf({LegacyCell(0, 0, <<"-">>, 3),
                         LegacyCell(0, 1, <<"S", "5", " ">>, 2)})]
BackupStores == {InitialStores, LegacyStores}

InitBackup == \E stores \in BackupStores : InitOver("coordinator", stores)
NextBackup ==
    \/ NextOver(StoreLandings, StoreMoves)
    \/ \E content \in EditorContents : EditorSave(content)
    \/ EditorDelete
    \/ HandleImport(exportData)
    \/ \E g \in Surfaces : ImportRequestResolves(g)
    \/ \E g \in Surfaces : ImportRequestRejects(g)
SpecBackup == InitBackup /\ [][NextBackup]_vars

(* Taps, one-finger drags and editor commits on both surfaces and     *)
(* Clear All from the toolbar, with durable requests that may fail.   *)
NextClear ==
    \/ NextOver(StoreLandings, StoreMoves)
    \/ \E content \in EditorContents : EditorSave(content)
    \/ EditorDelete
    \/ HandleClearAll
    \/ \E g \in Surfaces : ClearRequestResolves(g)
    \/ \E g \in Surfaces : ClearRequestRejects(g)
SpecClear == Init /\ [][NextClear]_vars

(* The first load, which may fail, followed by taps, one-finger drags *)
(* and editor commits on both surfaces.                               *)
NextLoad ==
    \/ NextOver(StoreLandings, StoreMoves)
    \/ \E g \in Surfaces : LoadFails(g)
    \/ \E content \in EditorContents : EditorSave(content)
    \/ EditorDelete
SpecLoad == Init /\ [][NextLoad]_vars

(* The same when the requests of the first load settle: each request  *)
(* of the database ends in a success or an error event, and the       *)
(* handler resumes after either.                                      *)
LoadSettles == LoadData \/ \E g \in Surfaces : LoadFails(g)
SpecLoadSettles == SpecLoad /\ WF_vars(LoadSettles)

(* The load on mount step by step: both loads are called, their opens *)
(* resolve one after the other, their reads resolve; then taps,       *)
(* one-finger drags and editor commits with durable requests that may *)
(* fail.                                                              *)
NextOpen ==
    \/ LoadStarts
    \/ OpenResolves
    \/ LoadReads
    \/ Handlers(StoreLandings, StoreMoves)
    \/ \E g \in Surfaces : WriteRejects(g)
    \/ \E content \in EditorContents : EditorSave(content)
    \/ EditorDelete
SpecOpen == Init /\ [][NextOpen]_vars

(* Up to three fingers on the main grid: two that pinch and a third   *)
(* that lands, moves and lifts between them, within one tick.         *)
ThreeLandings == <<{ptA}, {ptB}, {ptThird}, {}>>
ThreeMoves == <<{ptNear, ptA}, {ptFar, ptB}, {ptThirdMoved, ptThird}, {}>>

NextThree ==
    \/ LoadData
    \/ \E p \in ThreeLandings[Cardinality(AllContacts) + 1] :
          PointerDownWithin(p, MaxFingers, MaxFingers, MaxFingers)
    \/ \E s \in Surfaces : \E id \in contacts[s] :
          \E p \in ThreeMoves[Cardinality({c \in AllContacts : c <= id})] :
             PointerMove(s, id, p)
    \/ \E s \in Surfaces : \E id \in contacts[s] : PointerUp(s, id)
SpecThree == Init /\ [][NextThree]_vars

(* Main stores of up to three records over contents whose combined   *)
(* codes coincide or differ, with and without code1; the summaries of *)
(* both surfaces are computed from the loaded maps.                   *)
SummaryContents ==
    {[code1 |-> "S", code2 |-> "5", code3 |-> "", quantity |-> 1, note |-> ""],
     [code1 |-> "S", code2 |-> "5", code3 |-> "X", quantity |-> 2, note |-> ""],
     [code1 |-> "S", code2 |-> "5 X", code3 |-> "", quantity |-> 4, note |-> ""],
     [code1 |-> "SI", code2 |-> "5", code3 |-> "", quantity |-> 0, note |-> ""],
     [code1 |-> "S", code2 |-> "I5", code3 |-> "", quantity |-> 8, note |-> "n"],
     [code1 |-> "", code2 |-> "5", code3 |-> "X", quantity |-> 16, note |-> ""]}

SummaryPlaces == {<<0, 0>>, <<0, 1>>, <<1, 0>>}

SummaryStores ==
    {[k \in {getCellKey(pl[1], pl[2]) : pl \in places} |->
         LET pl == CHOOSE q \in places : getCellKey(q[1], q[2]) = k
         IN  [row |-> pl[1], col |-> pl[2], code1 |-> f[pl].code1, code2 |-> f[pl].code2,
              code3 |-> f[pl].code3, quantity |-> f[pl].quantity, note |-> f[pl].note]] :
        places \in SUBSET SummaryPlaces, f \in [SummaryPlaces -> SummaryContents]}

InitSummary ==
    \E store \in SummaryStores :
        InitOver("coordinator", [main |-> store, buffer |-> StoreOf({CellC})])
NextSummary ==
    \/ LoadData
    \/ \E s \in Surfaces : \E order \in InsertionOrders(cells[s]) : Summaries(s, order)
SpecSummary == InitSummary /\ [][NextSummary]_vars

(* Taps that open the editor on cells of both surfaces, calculator    *)
(* keys, and commits of what the calculator holds, for a record with  *)
(* a code and for one without.                                        *)
CalculatorDigits == {2, 5}
CalculatorFields == {BlankContent, [BlankContent EXCEPT !.code1 = "M"]}

NextEditor ==
    \/ NextOver(StoreLandings, StoreMoves)
    \/ \E key \in CalculatorDigits : KeyDigit(key)
    \/ \E op \in {"+", "-"} : KeyOperator(op)
    \/ KeyEquals
    \/ \E fields \in CalculatorFields : EditorSaveCalculated(fields)
    \/ EditorDelete
SpecEditor == Init /\ [][NextEditor]_vars

(* Main stores over the rows 0..MaxRun of column 0 and the rows 0..1  *)
(* of column 1, each place empty or holding a record without content  *)
(* or one of two records with content and different codes; the groups *)
(* are computed from the loaded map, its entries met in the order of  *)
(* their keys, in the reverse of it, or in a rotation of it.          *)
GroupContents ==
    <<[code1 |-> "", code2 |-> "7", code3 |-> "X", quantity |-> 0, note |-> ""],
      [code1 |-> "S", code2 |-> "5", code3 |-> "", quantity |-> 1, note |-> ""],
      [code1 |-> "F", code2 |-> "", code3 |-> "", quantity |-> 0, note |-> ""]>>
GroupPlaces == {<<r, 0>> : r \in 0..MaxRun} \cup {<<r, 1>> : r \in 0..1}
GroupStores ==
    {[k \in {getCellKey(pl[1], pl[2]) : pl \in {q \in GroupPlaces : f[q] # 0}} |->
         LET pl == CHOOSE q \in GroupPlaces : getCellKey(q[1], q[2]) = k
             c == GroupContents[f[pl]]
         IN  [row |-> pl[1], col |-> pl[2], code1 |-> c.code1, code2 |-> c.code2,
              code3 |-> c.code3, quantity |-> c.quantity, note |-> c.note]] :
        f \in [GroupPlaces -> 0..Len(GroupContents)]}

GroupOrders(m) ==
    LET size == Cardinality(DOMAIN m)
        records == getAll(m)
        byKey == [i \in 1..size |-> getCellKey(records[i].row, records[i].col)]
    IN  {[i \in 1..size |-> byKey[size + 1 - i]]}
        \cup {[i \in 1..size |-> byKey[((i + shift - 1) % size) + 1]] :
                 shift \in 0..(size - 1)}

InitGroups ==
    \E store \in GroupStores :
        InitOver("coordinator", [main |-> store, buffer |-> StoreOf({CellC})])
NextGroups ==
    \/ LoadData
    \/ \E order \in GroupOrders(cells["main"]) : DrawGroups(order)
SpecGroups == InitGroups /\ [][NextGroups]_vars

(* Stores left by an earlier version: the main store holds one record, *)
(* legacy or current, the buffer store a current one; the component    *)
(* loads them.                                                         *)
CodeAlphabet == {"s", "S", "5", " ", "-", "\n"}
CodeSI10PIM == <<"S", "I", "1", "0", "P", "I", "M">>
Codes == UNION {[1..n -> CodeAlphabet] : n \in 0..MaxCodeLen} \cup {CodeSI10PIM}

RawRecords ==
    {LegacyCell(0, 0, mc, 1) : mc \in Codes}
    \cup {[row |-> 0, col |-> 0, quantity |-> 2, color |-> "#00ff00", note |-> "n"]}
    \cup {CellA,
          [row |-> 0, col |-> 0, code1 |-> "s ", code2 |-> "5", code3 |-> " x",
           quantity |-> 0, note |-> ""],
          [row |-> 0, col |-> 0, code1 |-> "V", code2 |-> "", code3 |-> "",
           quantity |-> 4, note |-> "", materialCode |-> <<"s", "5">>,
           color |-> "#0000ff"]}

InitMigrate ==
    \E raw \in RawRecords :
        InitOver("coordinator", [main |-> StoreOf({raw}), buffer |-> StoreOf({CellC})])
NextMigrate == LoadData
SpecMigrate == InitMigrate /\ [][NextMigrate]_vars

(* Viewports left by earlier pans and pinches: the offsets of both    *)
(* surfaces and the scale of the main grid (the panel has no zoom);   *)
(* the mapper is asked for the centres of the corner cells and of a   *)
(* cell in the middle.                                                *)
ViewOffsets == {-137, 0, 55}
ViewScales == {MIN_SCALE, 333, 999, ScaleUnit, 1001, 1500, 2999, MAX_SCALE}

Views ==
    {[main |-> [offsetX |-> ox, offsetY |-> oy, scale |-> sc],
      buffer |-> [offsetX |-> oy, offsetY |-> ox, scale |-> ScaleUnit]] :
        ox \in ViewOffsets, oy \in ViewOffsets, sc \in ViewScales}

ProbedCells(s) ==
    {[row |-> r, col |-> c] : r \in {0, 2, Config(s).rows - 1},
                              c \in {0, 3, Config(s).cols - 1}}

(* A call of screenToGrid with the screen position of a cell's centre. *)
ProbeCentre(s, pos) ==
    LET p == cellCenterOnScreen(s, viewport[s], pos.row, pos.col)
    IN  /\ ~loading
        /\ last' = [RanAt("screenToGrid", s, <<>>, p.x, p.y) EXCEPT
                       !.arg = Reposition(NullCell,
                                  screenToGridFine(s, viewport[s], p.x, p.y).row,
                                  screenToGridFine(s, viewport[s], p.x, p.y).col)]
        /\ UNCHANGED <<loading, wiring, dbInstance, openLog, clearTask, calc, keys, cells, durable,
                       queue, tasks, viewport, pointersRef, gestureStateRef,
                       longPressTimerRef, pinch, dragState, crossGridDragState,
                       upClosure, editorState, contacts, hist, downs, zoomSteps,
                       dropLog, importTask, importLog, commits>>

InitMapper == \E view \in Views : InitView("coordinator", InitialStores, view)
NextMapper ==
    \/ LoadData
    \/ \E s \in Surfaces : \E pos \in ProbedCells(s) : ProbeCentre(s, pos)
SpecMapper == InitMapper /\ [][NextMapper]_vars

(* The column headers: the renderer labels the visible columns one   *)
(* after the other, from whatever column scrolling has brought to the *)
(* left edge.                                                         *)
(* The call: the column in at.x, the characters returned in calls. *)
Labelled(col) ==
    [Ran("getColumnLabel", "main", getColumnLabel(col)) EXCEPT !.at = Pt(col, 0)]

LabelFirstColumn(startCol) ==
    /\ ~loading
    /\ last.kind # "getColumnLabel"
    /\ last' = Labelled(startCol)
    /\ UNCHANGED <<loading, wiring, dbInstance, openLog, clearTask, calc, keys, cells, durable, queue,
                   tasks, viewport, pointersRef, gestureStateRef, longPressTimerRef,
                   pinch, dragState, crossGridDragState, upClosure, editorState,
                   contacts, hist, downs, zoomSteps, dropLog, importTask, importLog,
                   commits>>

LabelNextColumn ==
    /\ last.kind = "getColumnLabel"
    /\ last.at.x + 1 < MaxColumn
    /\ last' = Labelled(last.at.x + 1)
    /\ UNCHANGED <<loading, wiring, dbInstance, openLog, clearTask, calc, keys, cells, durable, queue,
                   tasks, viewport, pointersRef, gestureStateRef, longPressTimerRef,
                   pinch, dragState, crossGridDragState, upClosure, editorState,
                   contacts, hist, downs, zoomSteps, dropLog, importTask, importLog,
                   commits>>

NextLabel ==
    \/ LoadData
    \/ \E startCol \in 0..(MaxColumn - 1) : LabelFirstColumn(startCol)
    \/ LabelNextColumn
SpecLabel == Init /\ [][NextLabel]_vars

(* ------------------------------------------------------------------ *)
(* Tap                                                                *)
(* ------------------------------------------------------------------ *)
(* The surface tracks one contact, which is down, has been alone since *)
(* it went down, is displaced by less than the tap threshold and has   *)
(* been held for less than the long-press duration.                    *)
QuickStillContact(s) ==
    /\ Len(pointersRef[s]) = 1
    /\ contacts[s] = {pointersRef[s][1].id}
    /\ hist[s].solo
    /\ LET p == pointersRef[s][1]
       IN  /\ (p.x - p.startX) * (p.x - p.startX) + (p.y - p.startY) * (p.y - p.startY)
                 < TAP_THRESHOLD * TAP_THRESHOLD
           /\ p.elapsed < LONG_PRESS_DURATION

StartCell(s) == screenToGrid(s, pointersRef[s][1].startX, pointersRef[s][1].startY)

(* The release dispatched one tap, for the cell under the start point, *)
(* and the gesture had no pan, zoom or drag side effect.               *)
OneTapNoSideEffect(s) ==
    /\ Count(last'.calls, "onCellTap") = 1
    /\ editorState'.isOpen
    /\ [row |-> editorState'.row, col |-> editorState'.col] = StartCell(s)
    /\ editorState'.isBuffer = (s = "buffer")
    /\ ~hist[s].effects
    /\ hist[s].dragStarts = 0
    /\ viewport' = viewport
    /\ gestureStateRef'[s] = "idle"
    /\ dragState' = dragState
    /\ crossGridDragState' = crossGridDragState
    /\ Count(last'.calls, "onDragEnd") = 0
    /\ Count(last'.calls, "onCellDrop") = 0
    /\ cells' = cells

Released(s) == last'.kind = "handlePointerUp" /\ last'.surface = s

TimerFired(s) == last'.kind = "longPressTimer" /\ last'.surface = s

(* The surface tracks one contact, which is down, has been alone since *)
(* it went down over a populated cell and is displaced by less than    *)
(* the tap threshold.                                                  *)
HeldStillOnContent(s) ==
    /\ Len(pointersRef[s]) = 1
    /\ contacts[s] = {pointersRef[s][1].id}
    /\ hist[s].solo
    /\ cellHasContent(hist[s].pressed)
    /\ LET p == pointersRef[s][1]
       IN  (p.x - p.startX) * (p.x - p.startX) + (p.y - p.startY) * (p.y - p.startY)
              < TAP_THRESHOLD * TAP_THRESHOLD

DragStarted(s) ==
    LET p == pointersRef[s][1]
    IN  /\ gestureStateRef'[s] = "dragging"
        /\ dragState'[s].isDragging
        /\ dragState'[s].sourceCell = hist[s].pressed
        /\ [row |-> dragState'[s].sourceRow, col |-> dragState'[s].sourceCol]
              = StartCell(s)
        /\ Count(last'.calls, "onDragStart") = 1
        /\ crossGridDragState'.isDragging
        /\ ~crossGridDragState'.dropHandled
        /\ crossGridDragState'.sourceCell = hist[s].pressed
        /\ crossGridDragState'.sourceGrid = s
        /\ hist'[s].dragStarts = 1

(* C2: when the long-press timer fires (the contact has been held for   *)
(* 500 ms) for a single contact that went down over a populated cell    *)
(* and is displaced by less than 10 px, the gesture state becomes       *)
(* dragging, the snapshot of that cell is captured and the drag-start   *)
(* notification is emitted once; no gesture starts more than one drag   *)
(* and no handler emits the notification except for the first drag      *)
(* start of a gesture. Stated for the surfaces wired to the             *)
(* coordinator.                                                         *)
C2_LongPressStartsOneDrag ==
    [][\A s \in Surfaces :
          /\ TimerFired(s) /\ Notifies(s) /\ HeldStillOnContent(s) => DragStarted(s)
          /\ hist'[s].dragStarts <= 1
          /\ last'.surface = s /\ Count(last'.calls, "onDragStart") > 0
                => /\ Count(last'.calls, "onDragStart") = 1
                   /\ hist[s].dragStarts = 0
                   /\ hist'[s].dragStarts = 1]_vars

(* A drag has just been started by a long press and notified. *)
C2_DragStartNotified ==
    /\ last.kind = "longPressTimer"
    /\ last.calls = <<"onDragStart">>
    /\ gestureStateRef[last.surface] = "dragging"
    /\ dragState[last.surface].isDragging
    /\ crossGridDragState.isDragging
    /\ contacts[last.surface] # {}

(* ------------------------------------------------------------------ *)
(* Drag state                                                         *)
(* ------------------------------------------------------------------ *)
DragActive(s) ==
    \/ dragState[s].isDragging
    \/ crossGridDragState.isDragging /\ crossGridDragState.sourceGrid = s

(* C3: whenever no contact is down on a surface, the surface's local  *)
(* drag state and the shared drag record of a drag from that surface  *)
(* are inactive.                                                      *)
C3_NoDragWithoutContact ==
    \A s \in Surfaces : contacts[s] = {} => ~DragActive(s)

(* C3, on the main grid after a second contact arrived during a drag: *)
(* once both contacts are lifted no drag state is left.               *)
C3_NoDragAfterSecondContact ==
    (contacts["main"] = {} /\ last.kind = "handlePointerUp" /\ last.surface = "main")
       => ~DragActive("main")

(* ------------------------------------------------------------------ *)
(* Drop commit                                                        *)
(* ------------------------------------------------------------------ *)
(* The single contact of a surface is released while the surface is *)
(* dragging: the drag ends.                                          *)
DragReleased(s) ==
    /\ Released(s)
    /\ Len(pointersRef[s]) = 1
    /\ gestureStateRef[s] = "dragging"

(* The cell at a screen position, the buffer panel lying on top of the *)
(* main grid.                                                          *)
CellUnder(x, y) ==
    IF screenToGrid("buffer", x, y) # NoPos
    THEN [grid |-> "buffer", pos |-> screenToGrid("buffer", x, y)]
    ELSE IF screenToGrid("main", x, y) # NoPos
    THEN [grid |-> "main", pos |-> screenToGrid("main", x, y)]
    ELSE [grid |-> "none", pos |-> NoPos]

LastDrop == dropLog[Len(dropLog)]

TargetOf(d) ==
    [grid |-> d.plan.targetGrid,
     pos |-> [row |-> d.plan.targetRow, col |-> d.plan.targetCol]]

(* C4: the release that ends a drag notifies the coordinator once, and *)
(* if the contact is over a valid cell the coordinator commits exactly *)
(* one drop, onto that cell, and marks the drag handled.                *)
C4_OneCommitPerDrag ==
    [][\A s \in Surfaces :
          DragReleased(s) /\ Notifies(s) =>
             LET p == pointersRef[s][1]
             IN  /\ Count(last'.calls, "onDragEnd") = 1
                 /\ crossGridDragState'.dropHandled
                 /\ CellUnder(p.x, p.y).grid # "none" =>
                       /\ Count(last'.calls, "handleCrossGridDrop") = 1
                       /\ Len(dropLog') = Len(dropLog) + 1
                       /\ TargetOf(dropLog'[Len(dropLog')]) = CellUnder(p.x, p.y)]_vars

(* C4, the upper bound: no step commits more than one drop, and a drop *)
(* is committed only by a drag-end notification, for a shared record    *)
(* that is dragging and not yet handled and is handled afterwards.      *)
C4_AtMostOneCommit ==
    [][/\ Len(dropLog') <= Len(dropLog) + 1
       /\ Len(dropLog') = Len(dropLog) + 1 =>
             /\ last'.calls = <<"onDragEnd", "handleCrossGridDrop">>
             /\ crossGridDragState.isDragging
             /\ ~crossGridDragState.dropHandled
             /\ crossGridDragState'.dropHandled
             /\ ~crossGridDragState'.isDragging]_vars

(* ------------------------------------------------------------------ *)
(* Move and swap                                                      *)
(* ------------------------------------------------------------------ *)
SourceKeyOf(d) == getCellKey(d.plan.sourceCell.row, d.plan.sourceCell.col)
TargetKeyOf(d) == getCellKey(d.plan.targetRow, d.plan.targetCol)

(* The record at the target position when the drop was made. *)
TargetContent(d) == MapGet(d.cells[d.plan.targetGrid], TargetKeyOf(d))

(* The dragged snapshot was the record at its position when dropped. *)
SourceInPlace(d) == MapGet(d.cells[d.plan.sourceGrid], SourceKeyOf(d)) = d.plan.sourceCell

SamePlace(d) ==
    /\ d.plan.sourceGrid = d.plan.targetGrid
    /\ SourceKeyOf(d) = TargetKeyOf(d)

IsMove(d) == SourceInPlace(d) /\ ~SamePlace(d) /\ ~cellHasContent(TargetContent(d))
IsSwap(d) == SourceInPlace(d) /\ ~SamePlace(d) /\ cellHasContent(TargetContent(d))

At(cell, row, col) == [cell EXCEPT !.row = row, !.col = col]

(* The maps the move of d leaves, from the maps it was dropped on. *)
MoveOutcome(d) ==
    LET removed == [d.cells EXCEPT ![d.plan.sourceGrid] = MapDelete(@, SourceKeyOf(d))]
    IN  [removed EXCEPT ![d.plan.targetGrid] =
            MapSet(@, TargetKeyOf(d),
                   At(d.plan.sourceCell, d.plan.targetRow, d.plan.targetCol))]

(* The maps the swap of d leaves, from the maps it was dropped on. *)
SwapOutcome(d) ==
    LET S == d.plan.sourceCell
        withT == [d.cells EXCEPT ![d.plan.sourceGrid] =
                     MapSet(@, SourceKeyOf(d), At(TargetContent(d), S.row, S.col))]
    IN  [withT EXCEPT ![d.plan.targetGrid] =
            MapSet(@, TargetKeyOf(d), At(S, d.plan.targetRow, d.plan.targetCol))]

(* The handler of the drop that task t runs ends in this step, and no *)
(* other drop was in progress while it ran.                            *)
DropEndsAlone(t) ==
    /\ tasks[t].pc # "free"
    /\ tasks'[t].pc = "free"
    /\ dropLog[tasks[t].drop].inFlight = 0
    /\ Len(dropLog) = tasks[t].drop

(* C5: when the handler of a drop of S onto a position without content *)
(* has ended, the in-memory maps are those the drop was made on with   *)
(* the record at S's position removed and S, repositioned, at the      *)
(* target; every other key is unchanged.                               *)
C5_MoveRelocates ==
    [][\A t \in TaskIds :
          DropEndsAlone(t) /\ IsMove(dropLog[tasks[t].drop])
             => cells' = MoveOutcome(dropLog[tasks[t].drop])]_vars

(* C6: when the handler of a drop of S onto a position holding T has   *)
(* ended, the in-memory maps are those the drop was made on with T,    *)
(* repositioned, at S's position and S, repositioned, at the target;   *)
(* and a drop within one surface makes that exchange in the step that  *)
(* commits it.                                                         *)
C6_SwapExchanges ==
    [][/\ \A t \in TaskIds :
             DropEndsAlone(t) /\ IsSwap(dropLog[tasks[t].drop])
                => cells' = SwapOutcome(dropLog[tasks[t].drop])
       /\ Len(dropLog') = Len(dropLog) + 1 =>
             LET d == dropLog'[Len(dropLog')]
             IN  IsSwap(d) /\ d.plan.sourceGrid = d.plan.targetGrid
                    => cells' = SwapOutcome(d)]_vars

(* The second drop takes the result of the first back to where the *)
(* first took it from.                                              *)
Reverses(d1, d2) ==
    /\ d2.plan.sourceGrid = d1.plan.targetGrid
    /\ d2.plan.targetGrid = d1.plan.sourceGrid
    /\ d2.plan.sourceCell = At(d1.plan.sourceCell, d1.plan.targetRow, d1.plan.targetCol)
    /\ d2.plan.targetRow = d1.plan.sourceCell.row
    /\ d2.plan.targetCol = d1.plan.sourceCell.col

Settled == InFlight = 0 /\ \A t \in TaskIds : tasks[t].pc = "free"

(* C7: after a drop of A onto an occupied cell and the drop of the     *)
(* result back onto A's original position, once both handlers have     *)
(* ended, the in-memory maps are those the first drop was made on.     *)
C7_SwapTwiceRestores ==
    (/\ Len(dropLog) = 2
     /\ IsSwap(dropLog[1])
     /\ dropLog[1].inFlight = 0
     /\ Reverses(dropLog[1], dropLog[2])
     /\ Settled)
       => cells = dropLog[1].cells

(* ------------------------------------------------------------------ *)
(* Drop target                                                        *)
(* ------------------------------------------------------------------ *)
(* The drop committed in this step. *)
Committed == Len(dropLog') = Len(dropLog) + 1

Untouched(g) == cells'[g] = cells[g] /\ queue'[g] = queue[g]

(* C8: at the release that ends a drag, if the buffer panel's mapper   *)
(* resolves the cursor of the shared record to a cell, the drop is     *)
(* committed to that cell of the buffer and the main map and store are *)
(* not touched; the drop is committed to the main grid only if the     *)
(* panel's mapper resolves none and the main grid's resolves one.      *)
C8_BufferFirst ==
    [][\A s \in Surfaces :
          DragReleased(s) /\ Notifies(s) /\ crossGridDragState.isDragging =>
             LET x == crossGridDragState.currentX
                 y == crossGridDragState.currentY
                 bufferHit == screenToGrid("buffer", x, y)
                 mainHit == screenToGrid("main", x, y)
             IN  /\ bufferHit # NoPos =>
                       /\ Committed
                       /\ TargetOf(dropLog'[Len(dropLog')]) =
                             [grid |-> "buffer", pos |-> bufferHit]
                       /\ Untouched("main")
                 /\ bufferHit = NoPos /\ mainHit # NoPos =>
                       /\ Committed
                       /\ TargetOf(dropLog'[Len(dropLog')]) =
                             [grid |-> "main", pos |-> mainHit]
                       /\ Untouched("buffer")
                 /\ bufferHit = NoPos /\ mainHit = NoPos => ~Committed]_vars

(* A drag was released where both mappers resolve a cell, and the drop *)
(* was committed to the buffer.                                        *)
C8_DroppedOnBufferOverMain ==
    /\ last.kind = "handlePointerUp"
    /\ last.calls = <<"onDragEnd", "handleCrossGridDrop">>
    /\ screenToGrid("buffer", last.at.x, last.at.y) # NoPos
    /\ screenToGrid("main", last.at.x, last.at.y) # NoPos
    /\ dropLog # <<>>
    /\ LastDrop.plan.targetGrid = "buffer"
    /\ LastDrop.plan.sourceGrid = "main"

(* ------------------------------------------------------------------ *)
(* Drop onto the source cell                                          *)
(* ------------------------------------------------------------------ *)
(* The write that resolves in this step was issued by the handler of a *)
(* drop onto the dragged cell's own position.                          *)
SelfDropWriteResolves ==
    /\ last'.kind = "writeResolved"
    /\ LET op == Head(queue[last'.surface])
       IN  /\ op.task # 0
           /\ SamePlace(dropLog[tasks[op.task].drop])

(* C9: a drop whose source and target are the same surface and the    *)
(* same (row, col) changes neither in-memory map when it is committed, *)
(* and changes neither durable store: no write of its handler alters a *)
(* store.                                                              *)
C9_SelfDropChangesNothing ==
    [][/\ Committed /\ SamePlace(dropLog'[Len(dropLog')]) => cells' = cells
       /\ SelfDropWriteResolves => durable' = durable]_vars

C11_ScaleWithinLimits ==
    /\ viewport["main"].scale >= MIN_SCALE
    /\ viewport["main"].scale <= MAX_SCALE
    /\ viewport["buffer"].scale = ScaleUnit

(* A pinch that began with both fingers on one point has zoomed: the  *)
(* quotient of the distances is unbounded and the scale is the upper  *)
(* limit.                                                             *)
C11_PinchedFromZeroDistance ==
    /\ gestureStateRef["main"] = "zooming"
    /\ pinch.distance = 0
    /\ zoomSteps > 0
    /\ viewport["main"].scale = MAX_SCALE

(* ------------------------------------------------------------------ *)
(* Long-press timer                                                   *)
(* ------------------------------------------------------------------ *)
(* The long-press timeout of the surface has just run and started a drag. *)
TimerStartedDrag(s) ==
    /\ TimerFired(s)
    /\ hist'[s].dragStarts > hist[s].dragStarts

(* The contact that armed the surface's timer is still down, no second *)
(* contact has been tracked since and it was never displaced by more   *)
(* than the tap threshold.                                             *)
NotSuperseded(s) ==
    /\ longPressTimerRef[s].pointerId \in contacts[s]
    /\ hist[s].solo
    /\ ~hist[s].strayed

(* C12: a long-press timeout starts a drag only while the contact that *)
(* armed it is still down, alone and never displaced by more than      *)
(* 10 px: after that contact was lifted or cancelled, after it moved   *)
(* more than 10 px, or after a second contact arrived, no timeout      *)
(* starts a drag, on either surface.                                   *)
C12_NoDragStartAfterSuperseded ==
    [][\A s \in Surfaces : TimerStartedDrag(s) => NotSuperseded(s)]_vars

(* The same for the main grid alone. *)
C12_MainTimerNeverStale ==
    [][TimerStartedDrag("main") => NotSuperseded("main")]_vars

(* ------------------------------------------------------------------ *)
(* Pointer cancel                                                     *)
(* ------------------------------------------------------------------ *)
(* The browser has just cancelled contact id of the surface. *)
Cancelled(s, id) ==
    /\ last'.kind = "pointercancel"
    /\ last'.surface = s
    /\ id \in contacts[s] \ contacts'[s]

(* What the cancel of contact id leaves behind on the surface. *)
CancelOutcome(s, id) ==
    /\ \A i \in 1..Len(pointersRef'[s]) : pointersRef'[s][i].id # id
    /\ ~longPressTimerRef'[s].armed
    /\ editorState' = editorState
    /\ Count(last'.calls, "onCellTap") = 0
    /\ cells' = cells /\ durable' = durable /\ queue' = queue /\ dropLog' = dropLog
    /\ Len(pointersRef'[s]) = 0 =>
          gestureStateRef'[s] = "idle" /\ dragState'[s] = IdleDrag

(* C13: a pointer cancel removes the cancelled contact from the        *)
(* surface's pointer collection and disarms the long-press timer,      *)
(* opens no editor and commits no drop; if the collection is then      *)
(* empty the gesture state is idle and the surface's drag state is     *)
(* the idle one. For both surfaces.                                    *)
C13_CancelDropsTheContact ==
    [][\A s \in Surfaces : \A id \in contacts[s] :
          Cancelled(s, id) => CancelOutcome(s, id)]_vars

(* The same for the main grid alone. *)
C13_MainCancelDropsTheContact ==
    [][\A id \in contacts["main"] :
          Cancelled("main", id) => CancelOutcome("main", id)]_vars

(* ------------------------------------------------------------------ *)
(* Migration of legacy records                                        *)
(* ------------------------------------------------------------------ *)
IsLegacy(r) == "code1" \notin DOMAIN r

(* The record the map of surface g holds for the stored record r. *)
LoadedFor(g, r) == cells[g][getCellKey(r.row, r.col)]

(* C19: a stored record that carries a code1 field is migrated to      *)
(* itself, field for field; migrating the migration of any stored      *)
(* record, legacy or current, gives that migration again; and once the *)
(* stores are loaded, each map holds the migration of each stored      *)
(* record and loading the map's records again gives the same map.      *)
C19_MigrationIdempotent ==
    \A g \in Surfaces : \A k \in DOMAIN durable[g] :
        LET r == durable[g][k]
            m == migrateCellData(r)
        IN  /\ ~IsLegacy(r) => m = r
            /\ migrateCellData(m) = m
            /\ ~loading => /\ LoadedFor(g, r) = m
                           /\ loadAllCellsFrom(cells[g]) = cells[g]

(* Both kinds are loaded: a legacy record that migration rewrote and a *)
(* current record it returned as it was.                               *)
C19_LoadedLegacyAndCurrent ==
    /\ ~loading
    /\ \E k \in DOMAIN durable["main"] :
          /\ IsLegacy(durable["main"][k])
          /\ cells["main"][k].code1 = "S"
          /\ cells["main"][k].code2 = "5"
    /\ cells["buffer"] = durable["buffer"]
    /\ cells["buffer"] # EmptyMap

(* The longest prefix of the characters that lies in the set. *)
RECURSIVE LeadingRun(_, _)
LeadingRun(chars, set) ==
    IF chars # <<>> /\ Head(chars) \in set
    THEN <<Head(chars)>> \o LeadingRun(Tail(chars), set)
    ELSE <<>>

Rest(chars, n) == SubSeq(chars, n + 1, Len(chars))

(* code1 is the leading letters uppercased, code2 the digits that     *)
(* follow them, code3 what remains, trimmed.                          *)
ParsedByRuns(mc, m) ==
    LET letters == LeadingRun(mc, Letters)
        digits == LeadingRun(Rest(mc, Len(letters)), Digits)
        remainder == Rest(mc, Len(letters) + Len(digits))
    IN  /\ m.code1 = Join(UpperCased(letters))
        /\ m.code2 = Join(digits)
        /\ m.code3 = Join(trim(remainder))

(* Migration keeps the position, the quantity and the note and builds *)
(* exactly the fields of a current record (no color).                 *)
KeepsTheRest(r, m) ==
    /\ DOMAIN m = {"row", "col", "code1", "code2", "code3", "quantity", "note"}
    /\ m.row = r.row /\ m.col = r.col
    /\ m.quantity = r.quantity /\ m.note = r.note

LegacyLoaded(r) == ~loading /\ IsLegacy(r) /\ "materialCode" \in DOMAIN r

(* C20 as stated: for every legacy materialCode the loaded record has *)
(* code1 = its leading letters uppercased, code2 = the digits that    *)
(* follow, code3 = the remainder trimmed, and keeps row, col,         *)
(* quantity and note without color.                                   *)
C20_EveryCodeParsedByRuns ==
    \A k \in DOMAIN durable["main"] :
        LET r == durable["main"][k]
        IN  LegacyLoaded(r) =>
               /\ ParsedByRuns(r.materialCode, LoadedFor("main", r))
               /\ KeepsTheRest(r, LoadedFor("main", r))

(* C20: for a legacy materialCode that begins with a letter and holds *)
(* no line terminator the loaded record has code1 = its leading       *)
(* letters uppercased, code2 = the digits that follow, code3 = the    *)
(* remainder trimmed; for an empty materialCode the three codes are   *)
(* empty; for any other materialCode code1 is the materialCode as it  *)
(* is and code2, code3 are empty. In every case row, col, quantity    *)
(* and note are kept and color is dropped. "S5" gives (S, 5, ""),     *)
(* "SI10PIM" gives (SI, 10, PIM).                                     *)
C20_LegacyCodeParsed ==
    \A k \in DOMAIN durable["main"] :
        LET r == durable["main"][k]
            mc == r.materialCode
            m == LoadedFor("main", r)
        IN  LegacyLoaded(r) =>
               /\ KeepsTheRest(r, m)
               /\ IF mc = <<>>
                  THEN m.code1 = "" /\ m.code2 = "" /\ m.code3 = ""
                  ELSE IF /\ mc[1] \in Letters
                          /\ \A n \in 1..Len(mc) : mc[n] \notin LineTerminators
                  THEN ParsedByRuns(mc, m)
                  ELSE m.code1 = Join(mc) /\ m.code2 = "" /\ m.code3 = ""
               /\ mc = <<"S", "5">> =>
                     m.code1 = "S" /\ m.code2 = "5" /\ m.code3 = ""
               /\ mc = CodeSI10PIM =>
                     m.code1 = "SI" /\ m.code2 = "10" /\ m.code3 = "PIM"

(* The legacy record with materialCode "s5 " has been loaded: code1 is *)
(* uppercased and the remainder is trimmed away.                       *)
C20_LoadedLowerCaseCode ==
    /\ ~loading
    /\ \E k \in DOMAIN durable["main"] :
          /\ IsLegacy(durable["main"][k])
          /\ "materialCode" \in DOMAIN durable["main"][k]
          /\ durable["main"][k].materialCode = <<"s", "5", " ">>
          /\ cells["main"][k] =
                [row |-> 0, col |-> 0, code1 |-> "S", code2 |-> "5", code3 |-> "",
                 quantity |-> 1, note |-> ""]

(* ------------------------------------------------------------------ *)
(* Editor commits of empty records                                    *)
(* ------------------------------------------------------------------ *)
(* code1 = "", quantity = 0 and note = "". *)
IsBlank(cell) == cell.code1 = "" /\ cell.quantity = 0 /\ cell.note = ""

(* The editor has just committed a blank record on surface g. *)
BlankSaved(g) ==
    /\ last'.kind = "handleCellSave"
    /\ last'.surface = g
    /\ IsBlank(last'.arg)

(* The durable delete issued by an editor commit has just completed on g. *)
EditorDeleteCompleted(g) ==
    /\ last'.kind = "writeResolved"
    /\ last'.surface = g
    /\ Head(queue[g]).kind = "delete"
    /\ Head(queue[g]).task = 0

(* C14: when the editor commits a record with code1 = "", quantity = 0 *)
(* and note = "" for (row, col) on a surface, the step changes the     *)
(* maps and the requests in flight exactly as the editor's delete of   *)
(* (row, col) does: the surface's map has no record at the key, a      *)
(* durable delete of the key is issued and no put; and when such a     *)
(* delete completes, the surface's store has no record at the key.     *)
C14_BlankSaveIsDelete ==
    [][\A g \in Surfaces :
          /\ BlankSaved(g) =>
                /\ handleCellDelete(last'.arg.row, last'.arg.col)
                /\ ~MapHas(cells'[g], getCellKey(last'.arg.row, last'.arg.col))
                /\ queue'[g][Len(queue'[g])].kind = "delete"
                /\ durable' = durable
          /\ EditorDeleteCompleted(g) => ~MapHas(durable'[g], Head(queue[g]).key)]_vars

(* A blank record has just been committed for a cell whose record is  *)
(* in the store: the map has lost it and the delete is in flight.     *)
C14_BlankSavedOverRecord ==
    /\ last.kind = "handleCellSave"
    /\ IsBlank(last.arg)
    /\ MapHas(durable[last.surface], getCellKey(last.arg.row, last.arg.col))
    /\ ~MapHas(cells[last.surface], getCellKey(last.arg.row, last.arg.col))
    /\ queue[last.surface] # <<>>

(* ------------------------------------------------------------------ *)
(* Stored records are never blank                                     *)
(* ------------------------------------------------------------------ *)
(* C15: in every reachable state, after whatever commits, deletes,    *)
(* drops, imports and loads, no record of a durable store and no      *)
(* record of an in-memory map has code1 = "", quantity = 0 and        *)
(* note = "".                                                         *)
C15_NoBlankRecordKept ==
    \A g \in Surfaces :
        /\ \A k \in DOMAIN durable[g] : ~IsBlank(migrateCellData(durable[g][k]))
        /\ \A k \in DOMAIN cells[g] : ~IsBlank(cells[g][k])

(* ------------------------------------------------------------------ *)
(* Import                                                             *)
(* ------------------------------------------------------------------ *)
(* The import call made last. *)
LastImport == importLog[Len(importLog)]

(* The step is a call of handleImport with a text that does not parse. *)
MalformedImportCalled ==
    /\ last'.kind = "handleImport"
    /\ Len(importLog') = Len(importLog) + 1
    /\ ~importLog'[Len(importLog')].text.wellFormed

(* C16: a call of import with a text that does not parse shows the    *)
(* failure message once and no success message, issues no clear and   *)
(* no save (no request is added to either store's queue and no import *)
(* is left running), and leaves both durable stores and both maps as  *)
(* they were.                                                         *)
C16_MalformedImportChangesNothing ==
    [][MalformedImportCalled =>
          /\ last'.calls = <<"alertFailed">>
          /\ importLog'[Len(importLog')].outcome = "failed"
          /\ queue' = queue
          /\ importTask' = importTask /\ importTask.pc = "idle"
          /\ durable' = durable
          /\ cells' = cells]_vars

(* A text that does not parse has just been imported over populated   *)
(* stores.                                                            *)
C16_MalformedImportRefused ==
    /\ last.kind = "handleImport"
    /\ importLog # <<>>
    /\ ~LastImport.text.wellFormed
    /\ LastImport.outcome = "failed"
    /\ durable["main"] # EmptyMap /\ durable["buffer"] # EmptyMap
    /\ cells["main"] # EmptyMap

(* The migrations of the records a field lists, in its order. *)
Migrations(field) ==
    [i \in 1..Len(field.items) |-> migrateCellData(field.items[i])]

(* The record space that holds exactly the records of the list, each  *)
(* at the key of its position (the last one listed for a position).   *)
SpaceOf(records) ==
    [k \in {getCellKey(records[i].row, records[i].col) : i \in 1..Len(records)} |->
        LET at == {i \in 1..Len(records) :
                      getCellKey(records[i].row, records[i].col) = k}
        IN  records[CHOOSE i \in at : \A j \in at : j <= i]]

(* The two record spaces a text describes: those of a bare array, and *)
(* those of an object with cells and bufferCells.                     *)
SpacesOf(text) ==
    LET v == text.value
    IN  IF v.tag = "array"
        THEN [main |-> SpaceOf(Migrations(v)), buffer |-> EmptyMap]
        ELSE [main |-> SpaceOf(Migrations(v.cells)),
              buffer |-> SpaceOf(Migrations(v.bufferCells))]

(* The step ends the import call made last, with the outcome. *)
ImportEnds(outcome) ==
    /\ importLog' # <<>>
    /\ importLog'[Len(importLog')].outcome = outcome
    /\ \/ Len(importLog) < Len(importLog')
       \/ LastImport.outcome = "running"

(* The import ending in this step ran by itself: when it was called no *)
(* write was in flight and no handler was suspended, and no drop and   *)
(* no editor commit was made while it ran.                             *)
RanAlone ==
    LET i == importLog'[Len(importLog')]
    IN  /\ i.quiet
        /\ i.drops = Len(dropLog')
        /\ i.commits = commits'

(* An array field of the text, or a field left out. *)
Listed(field) == field.tag \in {"array", "absent"}

(* C17: when an import call that ran by itself ends, by returning or  *)
(* by failing at any step, the two durable stores either hold exactly *)
(* the records of the text or are both as they were when import was   *)
(* called.                                                            *)
C17_ImportAllOrNothing ==
    [][(ImportEnds("imported") \/ ImportEnds("failed")) /\ RanAlone =>
          LET i == importLog'[Len(importLog')]
          IN  \/ durable' = i.durable
              \/ /\ i.text.wellFormed
                 /\ i.text.value.tag = "object" =>
                       Listed(i.text.value.cells) /\ Listed(i.text.value.bufferCells)
                 /\ durable' = SpacesOf(i.text)]_vars

(* C18: when an import call that ran by itself returns, the main store *)
(* holds exactly the migrated records of the array, if the root of the *)
(* text is an array, and of its cells otherwise; the buffer store is   *)
(* empty for an array and holds exactly the migrated bufferCells       *)
(* otherwise; every record stored before under a key that the text     *)
(* does not list is gone from both; and the maps hold what the stores  *)
(* hold.                                                               *)
C18_ImportReplacesBothSpaces ==
    [][ImportEnds("imported") /\ RanAlone =>
          LET i == importLog'[Len(importLog')]
              v == i.text.value
          IN  /\ durable'["main"] =
                    SpaceOf(Migrations(IF v.tag = "array" THEN v ELSE v.cells))
              /\ durable'["buffer"] =
                    IF v.tag = "array" THEN EmptyMap
                    ELSE SpaceOf(Migrations(v.bufferCells))
              /\ \A g \in Surfaces : \A k \in DOMAIN i.durable[g] :
                    k \notin DOMAIN SpacesOf(i.text)[g] => ~MapHas(durable'[g], k)
              /\ cells' = durable']_vars

(* An import of a bare array of legacy records has returned: the main *)
(* store holds the migrated record alone and the buffer store, which  *)
(* held a record, is empty.                                           *)
C18_LegacyArrayImported ==
    /\ importLog # <<>>
    /\ LastImport.outcome = "imported"
    /\ LastImport.text.value.tag = "array"
    /\ LastImport.durable["buffer"] # EmptyMap
    /\ durable["buffer"] = EmptyMap
    /\ DOMAIN durable["main"] = {"0-1"}
    /\ durable["main"]["0-1"].code1 = "S"
    /\ cells = durable

(* ------------------------------------------------------------------ *)
(* Optimistic editor commits                                          *)
(* ------------------------------------------------------------------ *)
(* The editor has just committed (Save or Delete) on surface g. *)
EditorCommitted(g) ==
    /\ last'.kind \in {"handleCellSave", "handleCellDelete"}
    /\ last'.surface = g
    /\ commits' = commits + 1

(* The map of g after a commit of the record: the record under its key *)
(* if it has content and the editor saved it, no record otherwise.     *)
CommittedMap(g, kind, cell) ==
    LET key == getCellKey(cell.row, cell.col)
        kept == kind = "handleCellSave"
                /\ (cell.code1 # "" \/ cell.quantity > 0 \/ cell.note # "")
    IN  /\ MapHas(cells'[g], key) = kept
        /\ kept => cells'[g][key] = cell
        /\ \A k \in (DOMAIN cells[g] \cup DOMAIN cells'[g]) \ {key} :
              /\ MapHas(cells[g], k) = MapHas(cells'[g], k)
              /\ MapHas(cells[g], k) => cells'[g][k] = cells[g][k]

(* A durable write issued by the editor on g has just been rejected. *)
EditorWriteRejected(g) ==
    /\ last'.kind = "writeRejected"
    /\ last'.surface = g
    /\ queue[g] # <<>>
    /\ queue'[g] = Tail(queue[g])
    /\ Head(queue[g]).task = 0

(* C21: an editor commit (Save or Delete) on a surface changes the     *)
(* surface's map in the same step, while its durable write is in       *)
(* flight and the store is unchanged; when that write is rejected the  *)
(* maps are left as they are (no revert), the rejection is logged, and *)
(* the editor, the gesture state and the tracked contacts of both      *)
(* surfaces are left as they are, so that later gestures and commits   *)
(* run as after a write that succeeded.                                *)
C21_OptimisticWithoutRollback ==
    [][\A g \in Surfaces :
          /\ EditorCommitted(g) =>
                /\ CommittedMap(g, last'.kind, last'.arg)
                /\ durable' = durable
                /\ Len(queue'[g]) = Len(queue[g]) + 1
                /\ queue'[g][Len(queue'[g])].task = 0
          /\ EditorWriteRejected(g) =>
                /\ cells' = cells
                /\ durable' = durable
                /\ last'.calls = <<"consoleError">>
                /\ UNCHANGED <<editorState, gestureStateRef, pointersRef, dragState,
                               crossGridDragState, longPressTimerRef, upClosure,
                               loading, tasks>>]_vars

(* The write of a commit on the main grid was rejected (the store has  *)
(* the old record of the cell, the map the committed one, nothing is   *)
(* in flight on the store), and after it a tap opened the buffer       *)
(* panel's editor and a second commit was made there.                  *)
C21_CommittedAfterFailedWrite ==
    /\ commits = 2
    /\ dropLog = <<>>
    /\ importLog = <<>>
    /\ last.kind = "handleCellSave"
    /\ last.surface = "buffer"
    /\ queue["main"] = <<>>
    /\ Len(queue["buffer"]) = 1
    /\ MapHas(cells["main"], "0-0")
    /\ cells["main"]["0-0"].code1 = "M"
    /\ durable["main"] = InitialStores["main"]

(* ------------------------------------------------------------------ *)
(* Rejected persistence calls                                         *)
(* ------------------------------------------------------------------ *)
(* The handler that ran last let a rejection escape. *)
RejectionEscaped ==
    \E i \in 1..Len(last.calls) : last.calls[i] = "unhandledRejection"

(* C22: in every reachable state, whatever handler ran last (load,    *)
(* editor commit or delete, drop commit, import, or the continuation  *)
(* of one of them after a durable request completed or failed), no    *)
(* rejection of a durable request has left the handler uncaught.      *)
C22_NoRejectionEscapes == ~RejectionEscaped

(* ------------------------------------------------------------------ *)
(* Round trip of the coordinate mapper                                *)
(* ------------------------------------------------------------------ *)
(* The centre of cell (row, col) in the grid's own coordinates lies   *)
(* half a cell inside the cell, scaled and shifted by the viewport.   *)
CentreOf(s, row, col) ==
    LET cfg == Config(s)
        vp == viewport[s]
        r == CanvasRect(s)
    IN  Pt((r.left + vp.offsetX) * ScaleUnit
             + (((2 * col + 1) * cfg.cellWidth + 2 * cfg.rowHeaderWidth) * vp.scale) \div 2,
           (r.top + vp.offsetY) * ScaleUnit
             + (((2 * row + 1) * cfg.cellHeight + 2 * cfg.headerHeight) * vp.scale) \div 2)

(* C23: for every surface, every viewport (offsets, scale within      *)
(* [0.3, 3.0]) and every (row, col) within the bounds of the          *)
(* surface's grid, screenToGrid of the screen position of the centre  *)
(* of cell (row, col) is (row, col).                                  *)
C23_CentreMapsToItsCell ==
    \A s \in Surfaces :
        /\ viewport[s].scale >= MIN_SCALE
        /\ viewport[s].scale <= MAX_SCALE
        /\ \A row \in 0..(Config(s).rows - 1) : \A col \in 0..(Config(s).cols - 1) :
              screenToGridFine(s, viewport[s], CentreOf(s, row, col).x,
                               CentreOf(s, row, col).y) = [row |-> row, col |-> col]

(* The mapper was called with the centre of the main grid's last cell *)
(* under a shifted viewport at the largest scale and returned that    *)
(* cell.                                                              *)
C23_LastCellProbedAtMaxScale ==
    /\ last.kind = "screenToGrid"
    /\ last.surface = "main"
    /\ viewport["main"].scale = MAX_SCALE
    /\ viewport["main"].offsetX < 0
    /\ viewport["main"].offsetY > 0
    /\ last.at = CentreOf("main", 49, 99)
    /\ last.arg.row = 49
    /\ last.arg.col = 99

(* ------------------------------------------------------------------ *)
(* Pinch anchoring                                                    *)
(* ------------------------------------------------------------------ *)
(* A move of a two-finger pinch has just changed the main viewport. *)
PinchStep ==
    /\ last'.kind = "handlePointerMove"
    /\ last'.surface = "main"
    /\ gestureStateRef["main"] = "zooming"
    /\ Len(pointersRef["main"]) = 2
    /\ viewport'["main"] # viewport["main"]

(* The grid position drawn at screen coordinate c (relative to the    *)
(* canvas) before the step is drawn within two pixels of c after it:  *)
(* with g = (c - offset) / scale, |offset' + g * scale' - c| <= 2.    *)
AnchoredAt(c, offset, scale, offsetAfter, scaleAfter) ==
    Abs((offsetAfter - c) * scale + (c - offset) * scaleAfter) <= 2 * scale

StepAnchoredAt(p) ==
    /\ AnchoredAt(p.x - CanvasRect("main").left, viewport["main"].offsetX,
                  viewport["main"].scale, viewport'["main"].offsetX,
                  viewport'["main"].scale)
    /\ AnchoredAt(p.y - CanvasRect("main").top, viewport["main"].offsetY,
                  viewport["main"].scale, viewport'["main"].offsetY,
                  viewport'["main"].scale)

(* C24: every scale change of a two-finger pinch leaves the grid      *)
(* position under the initial pinch centroid where it was on the      *)
(* screen (within two pixels), so that after each change the centroid *)
(* maps to the grid position it mapped to when the pinch began,       *)
(* wherever the fingers have moved to.                                *)
C24_InitialCentroidAnchored == [][PinchStep => StepAnchoredAt(pinch.center)]_vars

(* The same for the centroid of the two contacts after the move. *)
C24_CurrentCentroidAnchored ==
    [][PinchStep =>
          StepAnchoredAt(getPointerCenter(pointersRef'["main"][1],
                                          pointersRef'["main"][2]))]_vars

(* ------------------------------------------------------------------ *)
(* Column labels                                                      *)
(* ------------------------------------------------------------------ *)
Alphabet ==
    <<"A", "B", "C", "D", "E", "F", "G", "H", "I", "J", "K", "L", "M", "N", "O",
      "P", "Q", "R", "S", "T", "U", "V", "W", "X", "Y", "Z">>

Rank(letter) == CHOOSE i \in 1..26 : Alphabet[i] = letter

(* Shorter labels first, labels of one length in alphabetical order. *)
LabelBefore(a, b) ==
    \/ Len(a) < Len(b)
    \/ /\ Len(a) = Len(b)
       /\ \E i \in 1..Len(a) :
             /\ Rank(a[i]) < Rank(b[i])
             /\ \A j \in 1..(i - 1) : a[j] = b[j]

(* C25: over [0, MaxColumn) with MaxColumn = 1000, the label of every *)
(* column is a non-empty word over the letters A..Z, differs from the *)
(* label of every other column and comes before the label of every    *)
(* later column (shorter first, then alphabetical); label(0) = "A",   *)
(* label(25) = "Z", label(26) = "AA", label(701) = "ZZ".              *)
C25_LabelsIncreaseOverAZ ==
    last.kind = "getColumnLabel" =>
        LET col == last.at.x
            label == last.calls
        IN  /\ label # <<>>
            /\ \A i \in 1..Len(label) : \E k \in 1..26 : label[i] = Alphabet[k]
            /\ \A other \in 0..(MaxColumn - 1) :
                  /\ other # col => getColumnLabel(other) # label
                  /\ other > col => LabelBefore(label, getColumnLabel(other))
            /\ col = 0 => label = <<"A">>
            /\ col = 25 => label = <<"Z">>
            /\ col = 26 => label = <<"A", "A">>
            /\ col = 701 => label = <<"Z", "Z">>

(* Column 701 has been labelled ZZ and column 702 after it has three  *)
(* letters.                                                           *)
C25_LabelledZZ ==
    /\ last.kind = "getColumnLabel"
    /\ last.at.x = 701
    /\ last.calls = <<"Z", "Z">>
    /\ getColumnLabel(702) = <<"A", "A", "A">>

(* ------------------------------------------------------------------ *)
(* Clear All                                                          *)
(* ------------------------------------------------------------------ *)
(* A call of Clear All has returned and no other call is running. *)
ClearReturned == clearTask.run > 0 /\ clearTask.pc = "idle"

(* Nothing but Clear All has written since the page was loaded. *)
OnlyClearRan == commits = 0 /\ dropLog = <<>> /\ importLog = <<>>

(* The last request of Clear All has just completed and the handler *)
(* has set the maps.                                                *)
ClearSucceeded ==
    /\ last.kind = "clearRequestResolved"
    /\ last.calls = <<"setCells", "setBufferCells">>

AllEmpty == \A g \in Surfaces : durable[g] = EmptyMap /\ cells[g] = EmptyMap

(* C26: when Clear All, running by itself, has completed, both stores *)
(* and both maps are empty; and in no state after Clear All has       *)
(* returned does a map show a record under a key that the surface's   *)
(* store no longer holds.                                             *)
C26_ClearAllLeavesNothing ==
    OnlyClearRan =>
        /\ ClearSucceeded => AllEmpty
        /\ ClearReturned =>
              \A g \in Surfaces : \A k \in DOMAIN cells[g] : MapHas(durable[g], k)

(* The first half alone: a Clear All that completed left nothing. *)
C26_CompletedClearLeavesNothing == OnlyClearRan /\ ClearSucceeded => AllEmpty

(* ------------------------------------------------------------------ *)
(* Material summary                                                   *)
(* ------------------------------------------------------------------ *)
(* The keys of the cells of a map that have a code1. *)
Coded(m) == {k \in DOMAIN m : m[k].code1 # ""}

(* The keys of those with the combined code. *)
CodedAs(m, code) == {k \in Coded(m) : getCombinedCode(m[k]) = code}

RECURSIVE QuantityOver(_, _)
QuantityOver(m, ks) ==
    IF ks = {} THEN 0
    ELSE LET k == CHOOSE x \in ks : TRUE
         IN  m[k].quantity + QuantityOver(m, ks \ {k})

RECURSIVE CountOver(_, _)
CountOver(summary, codes) ==
    IF codes = {} THEN 0
    ELSE LET c == CHOOSE x \in codes : TRUE
         IN  summary[c].cellCount + CountOver(summary, codes \ {c})

(* The summaries of surface s have just been computed. *)
Summarised(s) == last'.kind = "summaries" /\ last'.surface = s

(* C27: whenever the summaries of a surface are computed, from        *)
(* whatever map in whatever insertion order, there is exactly one     *)
(* entry per distinct combined code among the map's cells with        *)
(* non-empty code1 and no other entry; the entry's totalQuantity is   *)
(* the sum of the quantities of those cells and its cellCount their   *)
(* number; the cellCounts add up to the number of cells with          *)
(* non-empty code1; and computing the summaries changes neither the   *)
(* maps nor the stores and issues no durable request.                 *)
C27_SummaryGroupsByCombinedCode ==
    [][\A s \in Surfaces : Summarised(s) =>
          LET m == cells[s]
              summary == last'.arg
          IN  /\ DOMAIN summary = {getCombinedCode(m[k]) : k \in Coded(m)}
              /\ \A code \in DOMAIN summary :
                    /\ summary[code].combinedCode = code
                    /\ summary[code].totalQuantity = QuantityOver(m, CodedAs(m, code))
                    /\ summary[code].cellCount = Cardinality(CodedAs(m, code))
              /\ CountOver(summary, DOMAIN summary) = Cardinality(Coded(m))
              /\ UNCHANGED <<cells, durable, queue>>]_vars

(* The summaries of a main grid of three cells have been computed:    *)
(* two cells whose fields differ share the combined code "S5 X" and   *)
(* one entry of quantity 6, the third cell has no code1 and no entry. *)
C27_TwoCellsInOneEntry ==
    /\ last.kind = "summaries"
    /\ last.surface = "main"
    /\ Cardinality(DOMAIN cells["main"]) = 3
    /\ DOMAIN last.arg = {"S5 X"}
    /\ last.arg["S5 X"].cellCount = 2
    /\ last.arg["S5 X"].totalQuantity = 6
    /\ \E k \in DOMAIN cells["main"] : cells["main"][k].code1 = ""

(* ------------------------------------------------------------------ *)
(* Quantities                                                         *)
(* ------------------------------------------------------------------ *)
(* C28: in every reachable state, after whatever editor commits of    *)
(* calculator expressions (with + and -, with or without =), every    *)
(* record of an in-memory map and of a durable store has              *)
(* quantity >= 0.                                                     *)
C28_QuantityNonNegative ==
    \A g \in Surfaces :
        /\ \A k \in DOMAIN cells[g] : cells[g][k].quantity >= 0
        /\ \A k \in DOMAIN durable[g] : durable[g][k].quantity >= 0

(* The same for the durable stores alone. *)
C28_StoredQuantityNonNegative ==
    \A g \in Surfaces : \A k \in DOMAIN durable[g] : durable[g][k].quantity >= 0

(* ------------------------------------------------------------------ *)
(* Load failure                                                       *)
(* ------------------------------------------------------------------ *)
(* The first load has just failed. *)
LoadFailed == last.kind = "loadData" /\ last.surface \in Surfaces

MapsEmpty == \A g \in Surfaces : cells[g] = EmptyMap

(* C29: when opening the store or the first load fails, the failure   *)
(* is logged once to the console, the loading flag is false and both  *)
(* in-memory maps are empty; and whether the load fails or not, the   *)
(* loading flag eventually becomes false.                             *)
C29_LoadFailureNotFatal ==
    /\ [](LoadFailed => /\ Count(last.calls, "consoleError") = 1
                        /\ ~loading
                        /\ MapsEmpty)
    /\ <>(~loading)

(* The first load has failed over stores that hold records: the UI is *)
(* out of its loading phase with two empty maps.                      *)
C29_FailedLoadOverStoredRecords ==
    /\ LoadFailed
    /\ ~loading
    /\ MapsEmpty
    /\ \A g \in Surfaces : durable[g] # EmptyMap

(* After a failed load the UI has gone on: the editor has committed a *)
(* record to a map whose store still holds the records never loaded.  *)
C29_CommittedAfterFailedLoad ==
    /\ last.kind = "handleCellSave"
    /\ DOMAIN cells["main"] = {"0-0"}
    /\ cells["main"]["0-0"].code1 = "M"
    /\ {"0-0", "0-1"} \subseteq DOMAIN durable["main"]
    /\ cells["buffer"] = EmptyMap

(* ------------------------------------------------------------------ *)
(* Long press on an empty cell                                        *)
(* ------------------------------------------------------------------ *)
(* The surface tracks one contact, the one its timer was armed for,   *)
(* which is down, has been alone since it went down over a cell       *)
(* without content and is displaced by less than the tap threshold.   *)
HeldStillOnEmpty(s) ==
    /\ Len(pointersRef[s]) = 1
    /\ contacts[s] = {pointersRef[s][1].id}
    /\ longPressTimerRef[s].pointerId = pointersRef[s][1].id
    /\ hist[s].solo
    /\ StartCell(s) # NoPos
    /\ ~cellHasContent(hist[s].pressed)
    /\ ~cellHasContent(MapGet(cells[s], getCellKey(StartCell(s).row, StartCell(s).col)))
    /\ LET p == pointersRef[s][1]
       IN  (p.x - p.startX) * (p.x - p.startX) + (p.y - p.startY) * (p.y - p.startY)
              < TAP_THRESHOLD * TAP_THRESHOLD

NoDragStarted(s) ==
    /\ gestureStateRef'[s] # "dragging"
    /\ ~dragState'[s].isDragging
    /\ dragState' = dragState
    /\ crossGridDragState' = crossGridDragState
    /\ Count(last'.calls, "onDragStart") = 0
    /\ hist'[s].dragStarts = 0

(* C30: when the long-press timer fires for a single contact that has *)
(* moved less than 10 px and went down over a cell without content,   *)
(* no drag starts (no drag state is set, nothing is notified) and the *)
(* gesture state of the surface is idle before and after.             *)
C30_EmptyLongPressStaysIdle ==
    [][\A s \in Surfaces :
          TimerFired(s) /\ HeldStillOnEmpty(s)
             => /\ NoDragStarted(s)
                /\ gestureStateRef[s] = "idle"
                /\ gestureStateRef'[s] = "idle"]_vars

(* The first half alone: no drag starts. *)
C30_EmptyLongPressStartsNoDrag ==
    [][\A s \in Surfaces :
          TimerFired(s) /\ HeldStillOnEmpty(s) => NoDragStarted(s)]_vars

(* The claim on the buffer panel alone. *)
C30_BufferEmptyLongPressStaysIdle ==
    [][TimerFired("buffer") /\ HeldStillOnEmpty("buffer")
          => /\ NoDragStarted("buffer")
             /\ gestureStateRef["buffer"] = "idle"
             /\ gestureStateRef'["buffer"] = "idle"]_vars

(* The timer has fired for a contact held still over an empty cell of *)
(* the buffer panel.                                                  *)
C30_TimerFiredOverEmptyBufferCell ==
    /\ last.kind = "longPressTimer"
    /\ last.surface = "buffer"
    /\ Len(pointersRef["buffer"]) = 1
    /\ hist["buffer"].solo
    /\ ~cellHasContent(hist["buffer"].pressed)
    /\ hist["buffer"].dragStarts = 0

(* ------------------------------------------------------------------ *)
(* The contact that remains after a two-finger gesture                *)
(* ------------------------------------------------------------------ *)
(* Every pointer the surface tracks is a contact that is down. *)
TracksContacts(s) == Ids(s) = contacts[s]

(* One of the two contacts of the surface has just lifted. *)
OneOfTwoLifted(s) ==
    /\ Released(s)
    /\ TracksContacts(s)
    /\ Len(pointersRef[s]) = 2
    /\ Len(pointersRef'[s]) = 1

PanRestarted(s) ==
    LET remaining == pointersRef'[s][1]
    IN  /\ gestureStateRef'[s] = "panning"
        /\ remaining.startX = remaining.x
        /\ remaining.startY = remaining.y

(* The contact that remained after a two-finger gesture has just      *)
(* lifted.                                                            *)
RemainingLifted(s) ==
    /\ Released(s)
    /\ TracksContacts(s)
    /\ Len(pointersRef[s]) = 1
    /\ ~hist[s].solo

NoTapNoDrop ==
    /\ Count(last'.calls, "onCellTap") = 0
    /\ Count(last'.calls, "onCellDrop") = 0
    /\ Count(last'.calls, "handleCrossGridDrop") = 0
    /\ editorState' = editorState
    /\ cells' = cells
    /\ queue' = queue
    /\ dropLog' = dropLog

(* The timer has fired while the surface tracks the contact that      *)
(* remained after a two-finger gesture.                               *)
TimerFiredForRemaining(s) ==
    /\ TimerFired(s)
    /\ TracksContacts(s)
    /\ Len(pointersRef[s]) = 1
    /\ ~hist[s].solo

StartsNoDrag(s) ==
    /\ dragState' = dragState
    /\ crossGridDragState' = crossGridDragState
    /\ gestureStateRef'[s] = gestureStateRef[s]
    /\ Count(last'.calls, "onDragStart") = 0

AfterTwoFingers(s) ==
    /\ OneOfTwoLifted(s) => PanRestarted(s)
    /\ RemainingLifted(s) => NoTapNoDrop
    /\ TimerFiredForRemaining(s) => StartsNoDrag(s)

(* C31: when one of the two contacts of a surface lifts, the state    *)
(* becomes panning and the start point of the remaining contact is    *)
(* its current position; when the remaining contact lifts, no tap and *)
(* no drop is dispatched and the maps are unchanged; and no timer     *)
(* starts a drag for the remaining contact.                           *)
C31_RemainingContactRestartsPan ==
    [][\A s \in Surfaces : AfterTwoFingers(s)]_vars

(* The same on the main grid alone. *)
C31_MainRemainingContactRestartsPan == [][AfterTwoFingers("main")]_vars

(* The remaining contact of the main grid has lifted close to where   *)
(* the other contact left it.                                         *)
C31_MainRemainingContactLifted ==
    /\ last.kind = "handlePointerUp"
    /\ last.surface = "main"
    /\ pointersRef["main"] = <<>>
    /\ contacts["main"] = {}
    /\ last.calls = <<>>
    /\ gestureStateRef["main"] = "idle"
    /\ downs >= 2

(* ------------------------------------------------------------------ *)
(* A third contact                                                    *)
(* ------------------------------------------------------------------ *)
(* The handler that has just run was given the third of three         *)
(* contacts of the surface: its down, a move of it, or its up.        *)
ThirdContactEvent(s) ==
    /\ last'.surface = s
    /\ \/ /\ last'.kind = "handlePointerDown"
          /\ Len(pointersRef[s]) = 2
          /\ Len(pointersRef'[s]) = 3
       \/ /\ last'.kind = "handlePointerMove"
          /\ Len(pointersRef[s]) = 3
          /\ pointersRef'[s][3] # pointersRef[s][3]
       \/ /\ last'.kind = "handlePointerUp"
          /\ Len(pointersRef[s]) = 3
          /\ pointersRef'[s] = SubSeq(pointersRef[s], 1, 2)

ThirdContactIgnored(s) ==
    /\ gestureStateRef' = gestureStateRef
    /\ viewport' = viewport
    /\ dragState' = dragState
    /\ crossGridDragState' = crossGridDragState
    /\ pinch' = pinch
    /\ last'.calls = <<>>
    /\ editorState' = editorState
    /\ cells' = cells

(* One of the first two contacts of a zooming surface has just moved  *)
(* while a third contact is down on it.                               *)
PinchMoveBesideThird(s) ==
    /\ last'.kind = "handlePointerMove"
    /\ last'.surface = s
    /\ gestureStateRef[s] = "zooming"
    /\ Len(pointersRef[s]) = 3
    /\ SubSeq(pointersRef'[s], 1, 2) # SubSeq(pointersRef[s], 1, 2)

(* The viewport the move gives when only the first two contacts are   *)
(* there.                                                             *)
ZoomsAsWithTwo(s) ==
    viewport'[s] = PinchViewport(viewport[s], SubSeq(pointersRef'[s], 1, 2))

(* C32: the down, the moves and the up of a third contact change      *)
(* neither the gesture state, the viewport nor a drag state and       *)
(* dispatch nothing; and while the third contact is down, a move of   *)
(* one of the first two contacts zooms the viewport as it does with   *)
(* these two contacts alone.                                          *)
C32_ThirdContactIgnored ==
    [][\A s \in Surfaces :
          /\ ThirdContactEvent(s) => ThirdContactIgnored(s)
          /\ PinchMoveBesideThird(s) => ZoomsAsWithTwo(s)]_vars

(* The first half alone: the events of the third contact change       *)
(* nothing.                                                           *)
C32_ThirdContactEventsChangeNothing ==
    [][\A s \in Surfaces : ThirdContactEvent(s) => ThirdContactIgnored(s)]_vars

(* After the third contact has lifted, a move of one of the two       *)
(* contacts zooms the viewport.                                       *)
C32_ZoomedAfterThirdLifted ==
    /\ last.kind = "handlePointerMove"
    /\ last.surface = "main"
    /\ downs = MaxFingers
    /\ Len(pointersRef["main"]) = 2
    /\ gestureStateRef["main"] = "zooming"
    /\ viewport["main"].scale # ScaleUnit

(* ------------------------------------------------------------------ *)
(* Panning                                                            *)
(* ------------------------------------------------------------------ *)
(* The single contact of the surface has just moved. *)
SingleContactMoved(s) ==
    /\ last'.kind = "handlePointerMove"
    /\ last'.surface = s
    /\ TracksContacts(s)
    /\ Len(pointersRef[s]) = 1

FarFromStart(p) == MovedMoreThan(p, TAP_THRESHOLD)

(* The move changed the offset by the distance the contact moved and  *)
(* left the scale as it was.                                          *)
PannedByDelta(s) ==
    LET before == pointersRef[s][1]
        after == pointersRef'[s][1]
    IN  /\ viewport'[s].offsetX = viewport[s].offsetX + (after.x - before.x)
        /\ viewport'[s].offsetY = viewport[s].offsetY + (after.y - before.y)
        /\ viewport'[s].scale = viewport[s].scale

(* C33: on the buffer panel, the surface that pans by gesture, a move *)
(* that takes an idle single contact more than 10 px from its start   *)
(* sets the state to panning, and every move of the contact while the *)
(* state is panning changes the offset by that move's pixel delta and *)
(* leaves the scale unchanged.                                        *)
C33_PanFollowsEveryMove ==
    [][/\ SingleContactMoved("buffer") /\ gestureStateRef["buffer"] = "idle"
          /\ FarFromStart(pointersRef'["buffer"][1])
             => gestureStateRef'["buffer"] = "panning"
       /\ SingleContactMoved("buffer") /\ gestureStateRef["buffer"] = "panning"
             => PannedByDelta("buffer")]_vars

(* The same for the moves that end more than 10 px from the start.    *)
C33_PanFollowsMovesFarFromStart ==
    [][/\ SingleContactMoved("buffer") /\ gestureStateRef["buffer"] = "idle"
          /\ FarFromStart(pointersRef'["buffer"][1])
             => gestureStateRef'["buffer"] = "panning"
       /\ SingleContactMoved("buffer") /\ gestureStateRef["buffer"] = "panning"
          /\ FarFromStart(pointersRef'["buffer"][1])
             => PannedByDelta("buffer")]_vars

(* The panel has been panned by a move of its contact. *)
C33_BufferPanned ==
    /\ last.kind = "handlePointerMove"
    /\ last.surface = "buffer"
    /\ gestureStateRef["buffer"] = "panning"
    /\ viewport["buffer"].offsetX # 0

(* ------------------------------------------------------------------ *)
(* Convergence of the stores                                          *)
(* ------------------------------------------------------------------ *)
(* No write is in flight and no drop handler is waiting for one. *)
NoWriteInFlight ==
    /\ \A g \in Surfaces : queue[g] = <<>>
    /\ \A t \in TaskIds : tasks[t] = NoTask

DisjointKeysInFlight ==
    \A g \in Surfaces : \A i, j \in 1..Len(queue[g]) :
        i # j => queue[g][i].key # queue[g][j].key

(* C34: when no durable write fails, the writes in flight on a store  *)
(* at the same time have pairwise different keys, and whenever no     *)
(* write is in flight each store equals the in-memory map of its      *)
(* surface.                                                           *)
C34_StoresConverge ==
    ~loading =>
        /\ DisjointKeysInFlight
        /\ NoWriteInFlight => \A g \in Surfaces : durable[g] = cells[g]

(* The second half alone. *)
C34_QuiescentStoresEqualMaps ==
    ~loading /\ NoWriteInFlight => \A g \in Surfaces : durable[g] = cells[g]

(* The first half alone. *)
C34_WritesInFlightOnDisjointKeys == ~loading => DisjointKeysInFlight

(* ------------------------------------------------------------------ *)
(* Conservation of content across a drop                              *)
(* ------------------------------------------------------------------ *)
Places(cs) == {<<g, k>> : g \in Surfaces, k \in UNION {DOMAIN cs[g] : g \in Surfaces}}

Held(cs) == {pl \in Places(cs) : pl[2] \in DOMAIN cs[pl[1]]}

ContentsIn(cs) == {Content(cs[pl[1]][pl[2]]) : pl \in Held(cs)}

CountOf(cs, c) == Cardinality({pl \in Held(cs) : Content(cs[pl[1]][pl[2]]) = c})

(* The two pairs of maps hold the same multiset of contents. *)
SameContents(a, b) ==
    \A c \in ContentsIn(a) \cup ContentsIn(b) : CountOf(a, c) = CountOf(b, c)

(* The drop handler run as task t has just finished, by returning or  *)
(* by the rejection of the write it was awaiting, and no other drop   *)
(* handler is in progress.                                            *)
DropFinished(t) ==
    /\ tasks[t].pc # "free"
    /\ tasks'[t].pc = "free"
    /\ \A other \in TaskIds \ {t} : tasks[other].pc = "free"

(* C35: when a drop handler has finished, after its last write        *)
(* completed or after one of its writes failed, the contents held by  *)
(* the two in-memory maps together are, as a multiset, the contents   *)
(* they held when the drop was made.                                  *)
C35_DropConservesContents ==
    [][\A t \in TaskIds :
          DropFinished(t) => SameContents(cells', dropLog[tasks[t].drop].cells)]_vars

(* ------------------------------------------------------------------ *)
(* The live cursor of a drag                                          *)
(* ------------------------------------------------------------------ *)
(* The contact of a drag that reports to the coordinator has just     *)
(* been released where it went down, never having moved away.         *)
UnmovedDragReleased(s) ==
    /\ DragReleased(s)
    /\ Notifies(s)
    /\ TracksContacts(s)
    /\ ~hist[s].strayed
    /\ pointersRef[s][1].x = pointersRef[s][1].startX
    /\ pointersRef[s][1].y = pointersRef[s][1].startY

PressCell(s) == CellUnder(pointersRef[s][1].startX, pointersRef[s][1].startY)

(* C36: a drag released where it was pressed has its drop target     *)
(* resolved at the press position, the cell the drag started on, and  *)
(* leaves both maps as they were.                                     *)
C36_UnmovedDragDropsOnPressCell ==
    [][\A s \in Surfaces :
          UnmovedDragReleased(s) =>
             /\ DropTarget(upClosure[s].cross) = PressCell(s)
             /\ cells' = cells]_vars

(* The second half alone: both maps are unchanged. *)
C36_UnmovedDragChangesNoMap ==
    [][\A s \in Surfaces : UnmovedDragReleased(s) => cells' = cells]_vars

(* ------------------------------------------------------------------ *)
(* The drag preview of the main grid                                  *)
(* ------------------------------------------------------------------ *)
LocalDragOnMain ==
    dragState["main"].isDragging /\ ~IsNull(dragState["main"].sourceCell)

(* A drag that started on the buffer panel has its cursor over a cell *)
(* of the main grid, which has no drag of its own.                    *)
IncomingDragOverMain ==
    /\ ~LocalDragOnMain
    /\ crossGridDragState.isDragging
    /\ ~IsNull(crossGridDragState.sourceCell)
    /\ crossGridDragState.sourceGrid = "buffer"
    /\ CellUnder(crossGridDragState.currentX, crossGridDragState.currentY).grid = "main"

LocalDragShown ==
    LET d == dragState["main"]
    IN  /\ Preview(d.sourceCell, d.currentX, d.currentY) \in drawDragLayer.previews
        /\ Outlined(d.currentX, d.currentY) \subseteq drawDragLayer.outlines

IncomingDragShown ==
    LET d == crossGridDragState
    IN  /\ Preview(d.sourceCell, d.currentX, d.currentY) \in drawDragLayer.previews
        /\ CellUnder(d.currentX, d.currentY).pos \in drawDragLayer.outlines

(* C37: while the main grid has a drag of its own its frame shows the *)
(* preview of the dragged cell at the cursor and outlines the cell    *)
(* under the cursor; and while it has none and a drag from the buffer *)
(* panel has its cursor over a cell of the main grid, its frame shows *)
(* the preview of that drag and outlines that cell.                   *)
C37_DragShownOnMain ==
    /\ LocalDragOnMain => LocalDragShown
    /\ IncomingDragOverMain => IncomingDragShown

(* The first half alone: the main grid's own drag is shown. *)
C37_LocalDragShownOnMain == LocalDragOnMain => LocalDragShown

(* The main grid's own drag is shown over cell (0,1). *)
C37_LocalDragOverSecondCell ==
    /\ LocalDragOnMain
    /\ drawDragLayer.outlines = {[row |-> 0, col |-> 1]}
    /\ Cardinality(drawDragLayer.previews) >= 1

(* ------------------------------------------------------------------ *)
(* Export then import                                                 *)
(* ------------------------------------------------------------------ *)
(* The import call made last was handed the text that export returns  *)
(* for the stores as they were when it was called.                    *)
ImportsOwnExport(i) == i.text = exportDataOf(i.durable)

(* Every record of the stores is the migrated record stored under the *)
(* same key of the same space when the import was called.             *)
FromSameSpace(stores, i) ==
    \A g \in Surfaces : \A k \in DOMAIN stores[g] :
        /\ MapHas(i.durable[g], k)
        /\ stores[g][k] = migrateCellData(i.durable[g][k])

(* Every record of the stores is a record stored under the same key  *)
(* of the same space when the import was called, as it was or         *)
(* migrated.                                                          *)
NoneCrossed(stores, i) ==
    \A g \in Surfaces : \A k \in DOMAIN stores[g] :
        /\ MapHas(i.durable[g], k)
        /\ stores[g][k] \in {i.durable[g][k], migrateCellData(i.durable[g][k])}

(* C38: export then import is the identity on stored content. When an *)
(* import of the text that export returned for the stores, run by     *)
(* itself, returns, each space has the keys it had before the export  *)
(* and under each key the migrated record it had there; and at no     *)
(* step of that import does a space hold a record other than the one  *)
(* it had under that key, as it was or migrated, so that none crosses *)
(* from one space to the other.                                       *)
C38_ExportImportIdentity ==
    [][LET i == importLog'[Len(importLog')]
       IN  /\ ImportEnds("imported") /\ RanAlone /\ ImportsOwnExport(i) =>
                 /\ \A g \in Surfaces : DOMAIN durable'[g] = DOMAIN i.durable[g]
                 /\ FromSameSpace(durable', i)
                 /\ cells' = durable'
           /\ importLog' # <<>> /\ RanAlone /\ ImportsOwnExport(i)
              /\ i.outcome \in {"running", "imported"} =>
                 NoneCrossed(durable', i)]_vars

(* The export of stores that held records of the earlier version in   *)
(* both spaces, two of them under the same key, has been imported:    *)
(* both spaces hold the migrated records under the keys they had.     *)
C38_LegacyStoresReimported ==
    /\ importLog # <<>>
    /\ LastImport.outcome = "imported"
    /\ LastImport.quiet
    /\ LastImport.durable = LegacyStores
    /\ LastImport.text = exportDataOf(LegacyStores)
    /\ DOMAIN durable["main"] = {"0-0", "0-1"}
    /\ DOMAIN durable["buffer"] = {"0-0", "0-1"}
    /\ durable["main"]["0-0"].code1 = "S"
    /\ durable["buffer"]["0-0"].code1 = "-"
    /\ durable["buffer"]["0-1"].code2 = "5"

(* ------------------------------------------------------------------ *)
(* Vertical groups                                                    *)
(* ------------------------------------------------------------------ *)
(* The main map holds a content-bearing cell at the place. *)
ContentAt(row, col) ==
    /\ MapHas(cells["main"], getCellKey(row, col))
    /\ cellHasContent(cells["main"][getCellKey(row, col)])

(* The rows a..b of the column are a maximal run of two or more       *)
(* content-bearing cells.                                             *)
MaximalRun(col, a, b) ==
    /\ b > a
    /\ \A r \in a..b : ContentAt(r, col)
    /\ ~ContentAt(a - 1, col)
    /\ ~ContentAt(b + 1, col)

GroupsDrawn == last.kind = "detectVerticalGroups"

(* C39: the groups returned are exactly the maximal runs of two or    *)
(* more content-bearing cells at consecutive rows of one column:      *)
(* every group has endRow > startRow, content at every row from       *)
(* startRow to endRow and none at startRow - 1 and endRow + 1; the    *)
(* groups of a column are pairwise disjoint; and every maximal run is *)
(* returned exactly once, whatever codes its cells carry.             *)
C39_GroupsAreMaximalRuns ==
    GroupsDrawn =>
        LET groups == last.arg
        IN  /\ \A n \in 1..Len(groups) :
                  /\ groups[n].endRow > groups[n].startRow
                  /\ MaximalRun(groups[n].col, groups[n].startRow, groups[n].endRow)
            /\ \A n, m \in 1..Len(groups) :
                  n # m /\ groups[n].col = groups[m].col =>
                     \/ groups[n].endRow < groups[m].startRow
                     \/ groups[m].endRow < groups[n].startRow
            /\ \A col \in 0..1 : \A a, b \in 0..(MaxRun + 1) :
                  MaximalRun(col, a, b) =>
                     Cardinality({n \in 1..Len(groups) :
                                     groups[n] = VerticalGroup(col, a, b)}) = 1

(* The groups of a map whose column 0 holds two runs of cells with    *)
(* different codes, parted by a record without content, and whose     *)
(* column 1 holds one run: three groups, those of column 1 first.     *)
C39_TwoRunsPartedByBlank ==
    /\ GroupsDrawn
    /\ Len(last.arg) = 3
    /\ MapHas(cells["main"], "2-0")
    /\ ~cellHasContent(cells["main"]["2-0"])
    /\ cells["main"]["0-0"].code1 # cells["main"]["1-0"].code1
    /\ last.arg[1] = VerticalGroup(1, 0, 1)
    /\ \E n \in 2..3 : last.arg[n] = VerticalGroup(0, 0, 1)
    /\ \E n \in 2..3 : last.arg[n] = VerticalGroup(0, 3, 4)

(* ------------------------------------------------------------------ *)
(* The storage handle                                                 *)
(* ------------------------------------------------------------------ *)
(* C40: the storage handle is a singleton: in every interleaving of   *)
(* storage calls, the two parallel loads of startup included, openDB  *)
(* is called at most once and every getDB call returns the same       *)
(* handle.                                                            *)
C40_HandleIsSingleton ==
    /\ openLog.opens <= 1
    /\ Cardinality(openLog.returned) <= 1

(* Both loads of startup were called before either open resolved and  *)
(* each got a handle of its own; the page has loaded and a write of   *)
(* the editor is in flight on the handle opened last.                 *)
C40_TwoHandlesInUse ==
    /\ ~loading
    /\ openLog.opens = 2
    /\ openLog.returned = {1, 2}
    /\ dbInstance = 2
    /\ commits > 0
    /\ \E g \in Surfaces : queue[g] # <<>>

====
